---------------------------- MODULE Spec2Model ----------------------------
(***************************************************************************)
(* A model of backend-explorer-mcp: the four tools get_erd, get_swagger,   *)
(* mongodb_explorer and data_explorer, their remote collaborators (two     *)
(* HTTP endpoints and a MongoDB store) and the values the tools return.    *)
(* The start-up of the process (index.ts: command-line flags overriding    *)
(* environment variables) is modelled at the end, with process.env held as *)
(* strings in env and the parse loop as the one invocation.                *)
(*                                                                         *)
(* Strings are sequences of one-character strings, so that lowercasing,    *)
(* tokenising and substring search are computed as the code computes them. *)
(***************************************************************************)
EXTENDS Naturals, Sequences, FiniteSets

VARIABLES
    env,          \* process.env: which configuration variables are set
    available,    \* DataExplorerTool.availableDataSources (set by its constructor)
    erdSrv,       \* what the ERD endpoint answers to a GET
    swaggerSrv,   \* what the Swagger endpoint answers to a GET
    store,        \* the MongoDB deployment: reachable or not, its collections
    mongoClient,  \* MongoDBTool.mongoClient of each MongoDBTool instance
    pc,           \* per invocation: where the call stands
    input,        \* per invocation: the tool input
    local,        \* per invocation: the locals of execute and of the helper running
    result,       \* per invocation: the value execute returned
    net           \* per invocation: the requests sent so far and the one in flight

vars == <<env, available, erdSrv, swaggerSrv, store, mongoClient,
          pc, input, local, result, net>>

-----------------------------------------------------------------------------
(* Bounds of the model.                                                    *)

MaxQueryLen == 5

-----------------------------------------------------------------------------
(* Strings.                                                                *)

UpperChars == <<"A","B","C","D","E","F","G","H","I","J","K","L","M",
                "N","O","P","Q","R","S","T","U","V","W","X","Y","Z">>
LowerChars == <<"a","b","c","d","e","f","g","h","i","j","k","l","m",
                "n","o","p","q","r","s","t","u","v","w","x","y","z">>
DigitChars == <<"0","1","2","3","4","5","6","7","8","9">>

Range(f) == {f[i] : i \in DOMAIN f}

\* The characters the regular expression class \w accepts.
WordChars == Range(UpperChars) \cup Range(LowerChars) \cup Range(DigitChars) \cup {"_"}

\* String.prototype.toLowerCase, one character.
ToLowerChar(c) ==
    IF c \in Range(UpperChars)
    THEN LowerChars[CHOOSE i \in DOMAIN UpperChars : UpperChars[i] = c]
    ELSE c

\* String.prototype.toLowerCase.
toLowerCase(s) == [i \in 1..Len(s) |-> ToLowerChar(s[i])]

\* s.slice(i - 1, j): the characters i..j of s.
Slice(s, i, j) == [k \in 1..(j - i + 1) |-> s[i + k - 1]]

\* String.prototype.includes: sub occurs in s as a contiguous run.
includes(s, sub) ==
    \E i \in 1..(Len(s) + 1) :
        /\ i + Len(sub) - 1 <= Len(s)
        /\ \A k \in 1..Len(sub) : s[i + k - 1] = sub[k]

\* query.match(/\b(\w+)\b/g): the maximal runs of word characters, left to
\* right; the empty sequence stands for the null that match returns when
\* there is none.
RECURSIVE MatchWordsFrom(_, _, _)
MatchWordsFrom(s, i, cur) ==
    IF i > Len(s)
    THEN IF cur = <<>> THEN <<>> ELSE <<cur>>
    ELSE IF s[i] \in WordChars
         THEN MatchWordsFrom(s, i + 1, Append(cur, s[i]))
         ELSE IF cur = <<>>
              THEN MatchWordsFrom(s, i + 1, <<>>)
              ELSE <<cur>> \o MatchWordsFrom(s, i + 1, <<>>)

MatchWords(s) == MatchWordsFrom(s, 1, <<>>)

-----------------------------------------------------------------------------
(* data_explorer: entity resolution.                                       *)

commonWords ==
    << <<"t","h","e">>, <<"a","b","o","u","t">>, <<"w","h","a","t">>,
       <<"h","o","w">>, <<"i","s">>, <<"a","r","e">>, <<"i","n">>,
       <<"o","f">>, <<"t","o">>, <<"f","o","r">>, <<"o","n">>,
       <<"w","i","t","h">>,
       <<"p","r","o","p","e","r","t","i","e","s">>,
       <<"s","t","r","u","c","t","u","r","e">>,
       <<"s","c","h","e","m","a">>, <<"f","i","e","l","d","s">>,
       <<"d","a","t","a">>, <<"i","n","f","o">>,
       <<"i","n","f","o","r","m","a","t","i","o","n">>,
       <<"i","n","t","e","r","n","a","l">>,
       <<"p","r","o","p","e","r","t","y">>, <<"f","i","e","l","d">> >>

\* entityMatches.filter(word => !commonWords.includes(word))
MutPotentialEntities(entityMatches) == entityMatches

potentialEntities(entityMatches) ==
    SelectSeq(entityMatches, LAMBDA word : word \notin Range(commonWords))

\* The entity name execute extracts from input.query; "" (the empty
\* sequence) when it finds none.
ResolveEntity(query) ==
    LET q == toLowerCase(query)
        entityMatches == MatchWords(q)
        p == potentialEntities(entityMatches)
    IN  IF entityMatches # <<>> /\ Len(p) > 0 THEN p[1] ELSE <<>>

-----------------------------------------------------------------------------
(* Values the tools pass around.                                           *)

\* A message: a literal text with at most one interpolated string.
Msg(m, a) == [m |-> m, a |-> a]

\* A text payload is one of
\*   the JSON text of a value             (JSON.stringify(v, null, 2)),
\*   a plain sentence                     (an error or a placeholder),
\*   a markdown document                  (a sequence of lines).
TextJson(v)  == [k |-> "json", v |-> v]
TextPlain(m) == [k |-> "plain", msg |-> m]
TextMd(ls)   == [k |-> "md", lines |-> ls]

\* JSON.parse(text): defined only on JSON text; on anything else it throws
\* a SyntaxError.
JsonParses(text) == text.k = "json"
JsonParse(text)  == text.v

\* What execute returns.
\*   { content: [ { type: "text", text } ] }
ContentResponse(text) == [shape |-> "content", text |-> text]
\*   { error: true, message }
ErrorObject(m)        == [shape |-> "error", message |-> m]
\*   a bare object (response.data, a MongoDB result)
BareObject(v)         == [shape |-> "object", value |-> v]
\*   a bare markdown string
BareString(text)      == [shape |-> "string", text |-> text]
NoResult              == [shape |-> "none"]
\* execute rejected: the exception left the tool.
Thrown                == [shape |-> "thrown"]

\* response?.content && Array.isArray(response.content) && length > 0
HasContent(response) == response.shape = "content"

\* Markdown lines.  A header line carries its level (the number of '#') and
\* its text; any other line has level 0.
H(lvl, str)  == [lvl |-> lvl, txt |-> str, tag |-> "header"]
B(tag, str)  == [lvl |-> 0, txt |-> str, tag |-> tag]
Blank        == B("blank", <<>>)

-----------------------------------------------------------------------------
(* Names used by the inputs and the remote documents of the model.         *)

S_ab     == <<"a","b">>
S_AB     == <<"A","B">>
S_xab    == <<"x","a","b">>
S_cd     == <<"c","d">>
S_id     == <<"i","d">>
S_int    == <<"i","n","t">>
S_Tables == <<"T","a","b","l","e","s">>
S_DatabaseERD == <<"D","a","t","a","b","a","s","e"," ","E","R","D">>
S_Relations   == <<"R","e","l","a","t","i","o","n","s">>
S_undefined   == <<"u","n","d","e","f","i","n","e","d">>

-----------------------------------------------------------------------------
(* The ERD endpoint and get_erd (the variant that wraps its result in      *)
(* text content, which is the one data_explorer's getERDInfo reads).       *)

\* A column of a table.
Column(name, type, pk, fk) ==
    [name |-> name, type |-> type, isPrimaryKey |-> pk, isForeignKey |-> fk]

\* A table: named or not (a table without name is what a malformed document
\* holds), with its columns.
Table(name, cols)   == [hasName |-> TRUE, name |-> name, columns |-> cols]
NamelessTable       == [hasName |-> FALSE, name |-> <<>>, columns |-> <<>>]

\* response.data of the ERD endpoint:
\*   "null"    the JSON value null
\*   "str"     a body that is no JSON (axios hands it over as a string)
\*   "obj"     an object; tables is "absent", an "array" or "other"
ErdNull       == [k |-> "null", tables |-> "absent", list |-> <<>>]
ErdStr        == [k |-> "str", tables |-> "absent", list |-> <<>>]
ErdObj        == [k |-> "obj", tables |-> "absent", list |-> <<>>]
ErdBadTables  == [k |-> "obj", tables |-> "other", list |-> <<>>]
ErdDoc(ts)    == [k |-> "obj", tables |-> "array", list |-> ts]

\* The state of an endpoint: down (the GET fails) or serving data.
Down          == [up |-> FALSE, data |-> ErdNull]
Serving(d)    == [up |-> TRUE, data |-> d]

\* `| ${column.name} | ${column.type} | ... | ${Key} |`
ColumnRow(c) ==
    B("column",
      c.name \o <<"|">> \o c.type \o <<"|">>
        \o (IF c.isPrimaryKey THEN <<"P","K">>
            ELSE IF c.isForeignKey THEN <<"F","K">> ELSE <<>>))

RECURSIVE ColumnRows(_)
ColumnRows(cols) ==
    IF cols = <<>> THEN <<>>
    ELSE <<ColumnRow(Head(cols))>> \o ColumnRows(Tail(cols))

\* One table of ERDTool.convertToMarkdown.
ErdTableMarkdown(t) ==
    << H(3, IF t.hasName THEN t.name ELSE S_undefined), Blank,
       B("description", <<>>), Blank,
       B("columnsHeader", <<>>), B("columnsRule", <<>>) >>
    \o ColumnRows(t.columns) \o <<Blank>>

RECURSIVE ErdTablesMarkdown(_)
ErdTablesMarkdown(ts) ==
    IF ts = <<>> THEN <<>>
    ELSE ErdTableMarkdown(Head(ts)) \o ErdTablesMarkdown(Tail(ts))

\* ERDTool.convertToMarkdown: reading data.tables of null throws, which the
\* function catches and reports as a sentence.
ErdConvertToMarkdown(data) ==
    IF data.k = "null"
    THEN TextPlain(Msg("Failed to convert ERD data to markdown. Please use JSON format instead.", <<>>))
    ELSE IF data.tables = "array"
    THEN TextMd(<<H(1, S_DatabaseERD), Blank, H(2, S_Tables), Blank>>
                \o ErdTablesMarkdown(data.list))
    ELSE TextMd(<<H(1, S_DatabaseERD), Blank, B("cannotConvert", <<>>)>>)

ErdNotSet ==
    ContentResponse(TextPlain(Msg("ERD_API_URL is not set in the environment variables", <<>>)))

\* ERDTool.execute once the GET has settled.
ErdExecuteAfterGet(format, srv) ==
    IF ~srv.up
    THEN ContentResponse(TextPlain(Msg("Failed to retrieve ERD information: ", <<>>)))
    ELSE IF format = "markdown"
         THEN ContentResponse(ErdConvertToMarkdown(srv.data))
         ELSE ContentResponse(TextJson(srv.data))

-----------------------------------------------------------------------------
(* data_explorer: what a source's slot can hold.                           *)

SlotNull            == [k |-> "null"]
SlotMessage(m)      == [k |-> "message", msg |-> m]
SlotTable(t)        == [k |-> "table", table |-> t]
SlotRaw(v)          == [k |-> "raw", v |-> v]
\* A string: its lines, and whether it ends with a line break.
SlotString(ls, nl)  == [k |-> "string", lines |-> ls, nl |-> nl]

\* text.split('\n'): a text that ends with a line break yields one more,
\* empty, line.
SplitLines(text) ==
    IF text.k = "md" THEN text.lines \o <<Blank>>
    ELSE <<B("plain", <<>>)>>

\* new RegExp(`\\b${entityName}\\b`, 'i').test(line): the entity name occurs
\* in the line, whatever the case, with no word character on either side.
TargetPatternTest(line, entityName) ==
    LET s == toLowerCase(line.txt)
        e == toLowerCase(entityName)
    IN  \E i \in 1..Len(s) :
            /\ i + Len(e) - 1 <= Len(s)
            /\ \A k \in 1..Len(e) : s[i + k - 1] = e[k]
            /\ (i = 1 \/ s[i - 1] \notin WordChars)
            /\ (i + Len(e) - 1 = Len(s) \/ s[i + Len(e)] \notin WordChars)

\* /^#{1,6}\s/.test(line)
IsHeader(line) == line.lvl >= 1

\* The loop of extractMarkdownSection from line i on.
RECURSIVE ExtractLoop(_, _, _, _, _, _)
ExtractLoop(lines, i, entityName, capturing, currentIndentLevel, capturedSection) ==
    IF i > Len(lines)
    THEN [capturing |-> capturing, section |-> capturedSection]
    ELSE LET line == lines[i] IN
         IF IsHeader(line) /\ TargetPatternTest(line, entityName)
         THEN ExtractLoop(lines, i + 1, entityName, TRUE, line.lvl, <<line>>)
         ELSE IF capturing /\ IsHeader(line) /\ line.lvl <= currentIndentLevel
         THEN [capturing |-> capturing, section |-> capturedSection]
         ELSE ExtractLoop(lines, i + 1, entityName, capturing, currentIndentLevel,
                          IF capturing THEN Append(capturedSection, line)
                          ELSE capturedSection)

\* extractMarkdownSection: the captured lines, or null.
extractMarkdownSection(text, entityName) ==
    LET r == ExtractLoop(SplitLines(text), 1, entityName, FALSE, 0, <<>>)
    IN  IF r.capturing THEN SlotString(r.section, TRUE) ELSE SlotNull

-----------------------------------------------------------------------------
(* data_explorer: getERDInfo.                                              *)

\* The predicate of erdData.tables.find.
TableMatches(table, entityName) ==
    \/ toLowerCase(table.name) = toLowerCase(entityName)
    \/ includes(toLowerCase(table.name), toLowerCase(entityName))

\* erdData.tables.find(...): the first matching table; "none" when there is
\* none; "throw" when a table without name is met first (reading
\* table.name.toLowerCase of undefined throws).
RECURSIVE FindTable(_, _)
FindTable(tables, entityName) ==
    IF tables = <<>> THEN [k |-> "none"]
    ELSE IF ~Head(tables).hasName THEN [k |-> "throw"]
    ELSE IF TableMatches(Head(tables), entityName)
         THEN [k |-> "found", table |-> Head(tables)]
         ELSE FindTable(Tail(tables), entityName)

NoErdInfo(entityName) == Msg("No ERD information found for ", entityName)
ErdParseFailed        == SlotMessage(Msg("Failed to parse ERD data: ", <<>>))

\* getERDInfo once erdTool.execute has returned response.
getERDInfoAfter(response, entityName, format) ==
    IF ~HasContent(response)
    THEN SlotMessage(Msg("Failed to retrieve ERD data: Invalid response format", <<>>))
    ELSE IF format = "json"
    THEN IF ~JsonParses(response.text) THEN ErdParseFailed
         ELSE LET erdData == JsonParse(response.text) IN
              IF erdData.k = "null" THEN ErdParseFailed
              ELSE IF erdData.tables = "absent" THEN SlotRaw(erdData)
              ELSE IF erdData.tables = "other" THEN ErdParseFailed
              ELSE LET f == FindTable(erdData.list, entityName) IN
                   IF f.k = "throw" THEN ErdParseFailed
                   ELSE IF f.k = "found" THEN SlotTable(f.table)
                   ELSE SlotMessage(NoErdInfo(entityName))
    ELSE IF format = "markdown"
    THEN LET tableSection == extractMarkdownSection(response.text, entityName) IN
         IF tableSection.k # "null" THEN tableSection
         ELSE SlotString(<<B("No ERD information found for ", entityName)>>, FALSE)
    ELSE SlotMessage(Msg("Could not process ERD information", <<>>))

-----------------------------------------------------------------------------
(* The Swagger endpoint and get_swagger.                                   *)

S_slash_ab   == <<"/","a","b">>
S_slash_abs  == <<"/","a","b","s">>
S_slash_AB   == <<"/","A","B">>
S_slash_cd   == <<"/","c","d">>
S_Ab         == <<"A","b">>
S_Cd         == <<"C","d">>
S_get        == <<"g","e","t">>
S_post       == <<"p","o","s","t">>
S_constructor == <<"c","o","n","s","t","r","u","c","t","o","r">>
S_toString    == <<"t","o","S","t","r","i","n","g">>
S_valueOf     == <<"v","a","l","u","e","O","f">>
S_hasOwnProperty == <<"h","a","s","O","w","n","P","r","o","p","e","r","t","y">>
S_toLocaleString == <<"t","o","L","o","c","a","l","e","S","t","r","i","n","g">>
S_isPrototypeOf == <<"i","s","P","r","o","t","o","t","y","p","e","O","f">>
S_propertyIsEnumerable == <<"p","r","o","p","e","r","t","y","I","s","E","n","u","m","e","r","a","b","l","e">>
S_defineGetter == <<"_","_","d","e","f","i","n","e","G","e","t","t","e","r","_","_">>
S_defineSetter == <<"_","_","d","e","f","i","n","e","S","e","t","t","e","r","_","_">>
S_lookupGetter == <<"_","_","l","o","o","k","u","p","G","e","t","t","e","r","_","_">>
S_lookupSetter == <<"_","_","l","o","o","k","u","p","S","e","t","t","e","r","_","_">>
S_proto       == <<"_","_","p","r","o","t","o","_","_">>
S_Endpoints   == <<"E","n","d","p","o","i","n","t","s">>
S_ApiDocumentation == <<"A","P","I"," ","D","o","c","u","m","e","n","t","a","t","i","o","n">>
S_ApiDocSwagger == <<"A","P","I"," ","D","o","c","u","m","e","n","t","a","t","i","o","n",
                     " ","(","S","w","a","g","g","e","r",")">>

ToUpperChar(c) ==
    IF c \in Range(LowerChars)
    THEN UpperChars[CHOOSE i \in DOMAIN LowerChars : LowerChars[i] = c]
    ELSE c

toUpperCase(s) == [i \in 1..Len(s) |-> ToUpperChar(s[i])]

\* One entry of the paths object: its key and its value.  The value is a
\* path item ("object", with its methods in order), or, when the entry was
\* built from a property inherited from Object.prototype, a "function" or
\* the prototype object itself ("proto").
PathEntry(key, methods) == [key |-> key, kind |-> "object", methods |-> methods]

\* response.data of the Swagger endpoint:
\*   "null"   the JSON value null
\*   "str"    a body that is no JSON
\*   "obj"    an object; paths and components.schemas are absent or objects
\*            (plist: the path entries in order; slist: the schema names);
\*            info is absent or an object with a title (info.given, info.s)
SwNull == [k |-> "null", paths |-> "absent", plist |-> <<>>,
           schemas |-> "absent", slist |-> <<>>,
           info |-> [given |-> FALSE, s |-> <<>>]]
SwStr  == [k |-> "str", paths |-> "absent", plist |-> <<>>,
           schemas |-> "absent", slist |-> <<>>,
           info |-> [given |-> FALSE, s |-> <<>>]]
SwObj(hasPaths, plist, hasSchemas, slist) ==
    [k |-> "obj",
     paths |-> IF hasPaths THEN "object" ELSE "absent", plist |-> plist,
     schemas |-> IF hasSchemas THEN "object" ELSE "absent", slist |-> slist,
     info |-> [given |-> FALSE, s |-> <<>>]]
\* The document d with info: { title }.
SwTitled(d, title) == [d EXCEPT !.info = [given |-> TRUE, s |-> title]]

\* The names every object inherits from Object.prototype whose value is a
\* function.
InheritedFunctions ==
    {S_constructor, S_toString, S_toLocaleString, S_valueOf, S_hasOwnProperty,
     S_isPrototypeOf, S_propertyIsEnumerable, S_defineGetter, S_defineSetter,
     S_lookupGetter, S_lookupSetter}

Keys(plist) == {plist[i].key : i \in DOMAIN plist}

\* data.paths[path]: the own property if there is one, else the property
\* inherited from Object.prototype, else undefined.
PathLookup(plist, path) ==
    IF path \in Keys(plist)
    THEN plist[CHOOSE i \in DOMAIN plist : plist[i].key = path]
    ELSE IF path \in InheritedFunctions
    THEN [key |-> path, kind |-> "function", methods |-> <<>>]
    ELSE IF path = S_proto
    THEN [key |-> path, kind |-> "proto", methods |-> <<>>]
    ELSE [key |-> path, kind |-> "undefined", methods |-> <<>>]

\* An optional string: options.path given or not.
NoPath       == [given |-> FALSE, s |-> <<>>]
SomePath(s)  == [given |-> TRUE, s |-> s]

\* if (path && data.paths && data.paths[path]) data = {...data, paths: {[path]: data.paths[path]}}
SwaggerFilter(data, path) ==
    IF path.given /\ path.s # <<>> /\ data.paths = "object"
       /\ PathLookup(data.plist, path.s).kind # "undefined"
    THEN [data EXCEPT !.plist = <<PathLookup(data.plist, path.s)>>]
    ELSE data

\* JSON.stringify(data, null, 2) of a Swagger document: a property whose
\* value is a function is left out; the prototype object is written {}.
RECURSIVE StringifyEntries(_)
StringifyEntries(plist) ==
    IF plist = <<>> THEN <<>>
    ELSE LET e == Head(plist) IN
         (IF e.kind = "function" THEN <<>>
          ELSE <<PathEntry(e.key, e.methods)>>) \o StringifyEntries(Tail(plist))

SwaggerStringify(data) ==
    TextJson([data EXCEPT !.plist = StringifyEntries(data.plist)])

RECURSIVE MethodsMarkdown(_)
MethodsMarkdown(methods) ==
    IF methods = <<>> THEN <<>>
    ELSE <<H(4, toUpperCase(Head(methods))), Blank>> \o MethodsMarkdown(Tail(methods))

RECURSIVE PathsMarkdown(_)
PathsMarkdown(plist) ==
    IF plist = <<>> THEN <<>>
    ELSE <<H(3, Head(plist).key), Blank>> \o MethodsMarkdown(Head(plist).methods)
         \o PathsMarkdown(Tail(plist))

\* SwaggerTool.convertToMarkdown: reading data.info of null throws, which
\* the function catches and reports as a sentence.
SwaggerConvertToMarkdown(data) ==
    IF data.k = "null"
    THEN TextPlain(Msg("Failed to convert Swagger data to markdown. Please use JSON format instead.", <<>>))
    ELSE TextMd(<<H(1, S_ApiDocSwagger), Blank>>
                \o (IF data.info.given
                    THEN <<H(2, IF data.info.s = <<>> THEN S_ApiDocumentation
                                ELSE data.info.s),
                           Blank, B("description", <<>>), Blank>>
                    ELSE <<>>)
                \o (IF data.paths = "object"
                    THEN <<H(2, S_Endpoints), Blank>> \o PathsMarkdown(data.plist)
                    ELSE <<>>))

SwaggerNotSet ==
    ContentResponse(TextPlain(Msg("SWAGGER_API_URL is not set in the environment variables", <<>>)))

\* SwaggerTool.execute once the GET has settled.  With a path given, reading
\* data.paths of null throws inside the request's try block: the catch
\* returns the exception's message as text.
SwaggerExecuteAfterGet(format, path, srv) ==
    IF ~srv.up
    THEN ContentResponse(TextPlain(Msg("Failed to retrieve Swagger information: ", <<>>)))
    ELSE IF path.given /\ path.s # <<>> /\ srv.data.k = "null"
    THEN ContentResponse(TextPlain(Msg("Cannot read properties of null (reading 'paths')", <<>>)))
    ELSE LET data == SwaggerFilter(srv.data, path) IN
         IF format = "markdown"
         THEN ContentResponse(SwaggerConvertToMarkdown(data))
         ELSE ContentResponse(SwaggerStringify(data))

-----------------------------------------------------------------------------
(* data_explorer: getSwaggerInfo.                                          *)

\* { paths: relevantPaths, schemas: relevantSchemas }
SlotSwagger(ps, ss) == [k |-> "swagger", paths |-> ps, schemas |-> ss]

NoSwaggerInfo(entityName) == Msg("No Swagger information found for ", entityName)
SwaggerParseFailed        == SlotMessage(Msg("Failed to parse Swagger data: ", <<>>))

\* The path getSwaggerInfo asks for first: `/${entityName}`.
DirectPath(entityName) == SomePath(<<"/">> \o entityName)

\* directPathData.paths && Object.keys(directPathData.paths).length > 0,
\* inside its own try block: a text that does not parse, or the value null,
\* throws and is ignored.
DirectPathUsable(directText) ==
    /\ JsonParses(directText)
    /\ JsonParse(directText).k = "obj"
    /\ JsonParse(directText).paths = "object"
    /\ Len(JsonParse(directText).plist) > 0

\* getSwaggerInfo once both swaggerTool.execute calls have returned.
getSwaggerInfoAfter(directPathResponse, allResponse, entityName, format) ==
    IF ~HasContent(directPathResponse) \/ ~HasContent(allResponse)
    THEN SlotMessage(Msg("Failed to retrieve Swagger data: Invalid response format", <<>>))
    ELSE IF format = "json"
    THEN IF DirectPathUsable(directPathResponse.text)
         THEN SlotRaw(JsonParse(directPathResponse.text))
         ELSE IF ~JsonParses(allResponse.text) THEN SwaggerParseFailed
         ELSE LET swaggerData == JsonParse(allResponse.text) IN
              IF swaggerData.k = "null" THEN SwaggerParseFailed
              ELSE LET e == toLowerCase(entityName)
                       relevantPaths ==
                           IF swaggerData.paths = "object"
                           THEN SelectSeq(swaggerData.plist,
                                          LAMBDA p : includes(toLowerCase(p.key), e))
                           ELSE <<>>
                       relevantSchemas ==
                           IF swaggerData.schemas = "object"
                           THEN SelectSeq(swaggerData.slist,
                                          LAMBDA n : includes(toLowerCase(n), e))
                           ELSE <<>>
                   IN  IF relevantPaths = <<>> /\ relevantSchemas = <<>>
                       THEN SlotMessage(NoSwaggerInfo(entityName))
                       ELSE SlotSwagger(relevantPaths, relevantSchemas)
    ELSE IF format = "markdown"
    THEN LET directPathSection ==
                 extractMarkdownSection(directPathResponse.text, entityName)
             relevantSections ==
                 extractMarkdownSection(allResponse.text, entityName)
         IN  IF directPathSection.k # "null" THEN directPathSection
             ELSE IF relevantSections.k # "null" THEN relevantSections
             ELSE SlotString(<<B("No Swagger information found for ", entityName)>>, FALSE)
    ELSE SlotMessage(Msg("Could not process Swagger information", <<>>))

-----------------------------------------------------------------------------
(* The MongoDB store and mongodb_explorer.                                 *)

\* Program constants.
DefaultLimit   == 10     \* input.options?.limit || 10
DescribeSample == 100    \* collection.find().limit(100)
SampleLimit    == 2      \* getMongoDBInfo: options: { format, limit: 2 }

S_MongoResults == <<"M","o","n","g","o","D","B"," ","E","x","p","l","o","r","e","r"," ","R","e","s","u","l","t","s">>
S_Collections  == <<"C","o","l","l","e","c","t","i","o","n","s">>
S_CollSchema   == <<"C","o","l","l","e","c","t","i","o","n"," ","S","c","h","e","m","a",":"," ">>
S_SampleData   == <<"S","a","m","p","l","e"," ","D","a","t","a",":"," ">>
S_QueryResults == <<"Q","u","e","r","y"," ","R","e","s","u","l","t","s",":"," ">>
S_Results      == <<"R","e","s","u","l","t","s">>
S_Document     == <<"D","o","c","u","m","e","n","t"," ">>
S_a            == <<"a">>
S_b            == <<"b">>
S_dot          == <<".">>

\* Document values: a value is null, a store identifier, an array, a
\* primitive, or a nested document (its key/value pairs in order).
VNull        == [t |-> "null", kv |-> <<>>]
VObjectId    == [t |-> "ObjectId", kv |-> <<>>]
VArray       == [t |-> "array", kv |-> <<>>]
VString      == [t |-> "string", kv |-> <<>>]
VNumber      == [t |-> "number", kv |-> <<>>]
VObject(kv)  == [t |-> "object", kv |-> kv]
KV(key, val) == [key |-> key, val |-> val]

\* An optional string argument (collection, query): absent or given.
NoStr        == [given |-> FALSE, s |-> <<>>]
SomeStr(s)   == [given |-> TRUE, s |-> s]
\* !input.collection: undefined and "" are both falsy.
Falsy(opt)   == ~opt.given \/ opt.s = <<>>

\* An optional number (options.limit).
NoNum        == [given |-> FALSE, n |-> 0]
SomeNum(n)   == [given |-> TRUE, n |-> n]

\* input.options?.limit || 10: an absent limit and the limit 0 both give 10.
EffectiveLimit(limit) ==
    IF limit.given /\ limit.n # 0 THEN limit.n ELSE DefaultLimit

\* The documents of a collection; a collection the store does not hold reads
\* as empty.
DocsOf(st, name) ==
    IF name \in DOMAIN st.colls THEN st.colls[name] ELSE <<>>

Min(a, b) == IF a <= b THEN a ELSE b

\* cursor.limit(n).toArray(): the first n documents.
FirstN(docs, n) == SubSeq(docs, 1, Min(n, Len(docs)))

\* fields[fieldName] = fields[fieldName] || { type, count: 0 }; count++
\* fields keeps its entries in the order they were first seen.
BumpField(fields, fieldName, type) ==
    IF \E i \in DOMAIN fields : fields[i].name = fieldName
    THEN [i \in DOMAIN fields |->
            IF fields[i].name = fieldName
            THEN [fields[i] EXCEPT !.count = @ + 1]
            ELSE fields[i]]
    ELSE Append(fields, [name |-> fieldName, type |-> type, count |-> 1])

\* const extractFields = (obj, prefix) => { ... }: the entries of obj from
\* the i-th on.
RECURSIVE ExtractFieldsFrom(_, _, _, _)
ExtractFieldsFrom(fields, kv, i, prefix) ==
    IF i > Len(kv) THEN fields
    ELSE LET key       == kv[i].key
             value     == kv[i].val
             fieldName == IF prefix # <<>> THEN prefix \o S_dot \o key ELSE key
             bumped    == BumpField(fields, fieldName, value.t)
             after     == IF value.t = "object"
                          THEN ExtractFieldsFrom(bumped, value.kv, 1, fieldName)
                          ELSE bumped
         IN  ExtractFieldsFrom(after, kv, i + 1, prefix)

\* sampleDocs.forEach(doc => extractFields(doc))
RECURSIVE ExtractAll(_, _)
ExtractAll(fields, docs) ==
    IF docs = <<>> THEN fields
    ELSE ExtractAll(ExtractFieldsFrom(fields, Head(docs), 1, <<>>), Tail(docs))

\* What the four operations return.
MCollections(cs)        == [k |-> "collections", name |-> <<>>, items |-> cs, total |-> 0]
MSchema(name, fields)   == [k |-> "schema", name |-> name, items |-> fields, total |-> 0]
MSample(data)           == [k |-> "sample", name |-> <<>>, items |-> data, total |-> 0]
MQuery(data, total)     == [k |-> "query", name |-> <<>>, items |-> data, total |-> total]

\* describeCollection that leaves the name out of the answer for an empty
\* collection.
MutDescribeCollection(collectionName, sampleDocs) ==
    IF Len(sampleDocs) = 0
    THEN MSchema(<<>>, <<>>)
    ELSE MSchema(collectionName, ExtractAll(<<>>, sampleDocs))

\* describeCollection, given the documents find().limit(100) returned.
describeCollection(collectionName, sampleDocs) ==
    IF Len(sampleDocs) = 0
    THEN MSchema(collectionName, <<>>)
    ELSE MSchema(collectionName, ExtractAll(<<>>, sampleDocs))

\* listCollections: name, count and size of every collection.
RECURSIVE CollectionInfos(_, _)
CollectionInfos(st, names) ==
    IF names = <<>> THEN <<>>
    ELSE <<[name |-> Head(names), count |-> Len(DocsOf(st, Head(names)))]>>
         \o CollectionInfos(st, Tail(names))

\* What { $sample: { size: n } } can return: n documents of the collection
\* picked at random, no document twice, in any order (all of them when the
\* collection holds fewer).
Samples(docs, n) ==
    LET k == Min(n, Len(docs))
        picks == {f \in [1..k -> 1..Len(docs)] :
                     \A i, j \in 1..k : f[i] = f[j] => i = j}
    IN  {[i \in 1..k |-> docs[f[i]]] : f \in picks}

RECURSIVE DocLines(_, _)
DocLines(n, i) ==
    IF i > n THEN <<>>
    ELSE <<H(3, S_Document), Blank, B("json", <<>>), Blank>> \o DocLines(n, i + 1)

RECURSIVE RowLines(_, _)
RowLines(tag, items) ==
    IF items = <<>> THEN <<>>
    ELSE <<B(tag, Head(items).name)>> \o RowLines(tag, Tail(items))

\* An optional string as `${collection}` prints it.
Interpolated(opt) == IF opt.given THEN opt.s ELSE S_undefined

\* MongoDBTool.convertToMarkdown
MongoConvertToMarkdown(data, action, collection) ==
    TextMd(
      <<H(1, S_MongoResults), Blank>> \o
      CASE action = "listCollections" ->
             <<H(2, S_Collections), Blank, B("tableHeader", <<>>), B("tableRule", <<>>)>>
             \o RowLines("collection", data.items)
        [] action = "describeCollection" ->
             <<H(2, S_CollSchema \o Interpolated(collection)), Blank,
               B("tableHeader", <<>>), B("tableRule", <<>>)>>
             \o RowLines("field", data.items)
        [] action = "sampleData" ->
             <<H(2, S_SampleData \o Interpolated(collection)), Blank>>
             \o DocLines(Len(data.items), 1)
        [] action = "query" ->
             <<H(2, S_QueryResults \o Interpolated(collection)), Blank,
               B("executedQuery", <<>>), Blank, B("totalResults", <<>>), Blank,
               H(3, S_Results), Blank, B("json", <<>>), Blank>>
        [] OTHER -> <<>>)

\* The end of execute: if (format === "markdown") return convertToMarkdown(...);
\* return result
MongoFinish(data, req) ==
    IF req.format = "markdown"
    THEN BareString(MongoConvertToMarkdown(data, req.action, req.collection))
    ELSE BareObject(data)

\* The catch of execute rethrows.
MutMongoFailed    == Thrown
MongoFailed       == ErrorObject(Msg("MongoDB operation failed: ", <<>>))
NoConnString      == ErrorObject(Msg("MongoDB operation failed: Error: MongoDB connection string not found in environment variables. Please set MONGODB_URI or MONGODB_CONNECTION_STRING", <<>>))
CollectionMissing == ErrorObject(Msg("Collection name is required.", <<>>))
QueryMissing      == ErrorObject(Msg("Query is required.", <<>>))
InvalidQuery      == ErrorObject(Msg("Invalid query format: ", <<>>))

-----------------------------------------------------------------------------
(* data_explorer: getMongoDBInfo and the composition of the result.        *)

SourceNames == {"erd", "swagger", "mongodb"}

\* { schema: schemaData, samples: sampleData }
SlotMongo(schema, samples) == [k |-> "mongo", schema |-> schema, samples |-> samples]

MongoInvalidResponse ==
    SlotMessage(Msg("Failed to retrieve MongoDB schema: Invalid response format", <<>>))

\* The request getMongoDBInfo sends first.
DescribeRequest(entityName, format, limit) ==
    [action |-> "describeCollection", collection |-> SomeStr(entityName),
     query |-> [given |-> FALSE, s |-> <<>>, json |-> FALSE],
     format |-> format, limit |-> SomeNum(limit)]

\* The request getMongoDBInfo sends second.
SampleRequest(entityName, format) ==
    [action |-> "sampleData", collection |-> SomeStr(entityName),
     query |-> [given |-> FALSE, s |-> <<>>, json |-> FALSE],
     format |-> format, limit |-> SomeNum(SampleLimit)]

\* getMongoDBInfo once the describeCollection call has returned: the slot it
\* returns at once, or "continue" when it goes on to ask for samples.
\* The checks read schemaResponse.content, which only a response wrapped in
\* text content has.
SchemaOutcome(schemaResponse, entityName, format) ==
    IF ~HasContent(schemaResponse) THEN MongoInvalidResponse
    ELSE IF format = "json" /\ ~JsonParses(schemaResponse.text)
    THEN SlotMessage(Msg("Failed to parse MongoDB schema: ", <<>>))
    ELSE IF format = "json" /\ JsonParse(schemaResponse.text).name = <<>>
    THEN SlotMessage(Msg("No MongoDB collection found with name ", entityName))
    ELSE [k |-> "continue"]

\* getMongoDBInfo once the sampleData call has returned.
SampleOutcome(schemaResponse, sampleResponse, format) ==
    SlotMongo(schemaResponse,
              IF ~HasContent(sampleResponse)
              THEN SlotMessage(Msg("Could not retrieve sample data", <<>>))
              ELSE IF format = "json" /\ ~JsonParses(sampleResponse.text)
              THEN SlotMessage(Msg("Failed to parse MongoDB sample data: ", <<>>))
              ELSE sampleResponse)

\* `${source.toUpperCase()} data source is not configured. Set appropriate
\* environment variables.`
NotConfiguredJson(source) ==
    SlotMessage(Msg(" data source is not configured. Set appropriate environment variables.",
                    toUpperCase(source)))

SourceStr(s) ==
    CASE s = "erd" -> <<"e","r","d">> [] s = "swagger" -> <<"s","w","a","g","g","e","r">> [] OTHER -> <<"m","o","n","g","o","d","b">>

\* The JSON branch of execute: resultObj.
MutJsonResult(query, entityName, avail, sources) ==
    [query |-> query, entityName |-> entityName,
     sources |-> [s \in {n \in SourceNames : avail[n]} |-> sources[s]]]

JsonResult(query, entityName, avail, sources) ==
    [query |-> query, entityName |-> entityName,
     sources |-> [s \in SourceNames |->
                    IF avail[s] THEN sources[s] ELSE NotConfiguredJson(SourceStr(s))]]

S_Comprehensive == <<"C","o","m","p","r","e","h","e","n","s","i","v","e"," ","I","n","f","o","r","m","a","t","i","o","n"," ","a","b","o","u","t"," ">>
S_ErdSection    == <<"D","a","t","a","b","a","s","e"," ","S","c","h","e","m","a"," ","(","E","R","D",")">>
S_SwSection     == <<"A","P","I"," ","D","o","c","u","m","e","n","t","a","t","i","o","n"," ","(","S","w","a","g","g","e","r",")">>
S_MongoSection  == <<"M","o","n","g","o","D","B"," ","D","a","t","a">>
S_ApiEndpoints  == <<"A","P","I"," ","E","n","d","p","o","i","n","t","s">>
S_ApiModels     == <<"A","P","I"," ","M","o","d","e","l","s">>

\* markdown += str + "\n\n"
StringBlock(slot) ==
    slot.lines \o (IF slot.nl THEN <<Blank, Blank>> ELSE <<Blank>>)

MessageBlock(m) == <<B(m.m, m.a), Blank>>

ErdNotConfiguredMd ==
    B("ERD data source is not configured. Please set ERD_API_URL in environment variables.", <<>>)
SwaggerNotConfiguredMd ==
    B("Swagger data source is not configured. Please set SWAGGER_API_URL in environment variables.", <<>>)
MongoNotConfiguredMd ==
    B("MongoDB data source is not configured. Please set MONGODB_URI or MONGODB_CONNECTION_STRING in environment variables.", <<>>)

\* The ERD section without the test of sources.erd.available.
MutErdSectionMd(avail, erdResult) ==
    <<H(2, S_ErdSection), Blank>> \o
    IF erdResult.k = "string" THEN StringBlock(erdResult)
    ELSE IF erdResult.k = "message" THEN MessageBlock(erdResult.msg)
    ELSE <<B("No ERD information available for this entity.", <<>>), Blank>>

\* The ERD section of combineMarkdownResults.
ErdSectionMd(avail, erdResult) ==
    <<H(2, S_ErdSection), Blank>> \o
    IF ~avail THEN <<ErdNotConfiguredMd, Blank>>
    ELSE IF erdResult.k = "string" THEN StringBlock(erdResult)
    ELSE IF erdResult.k = "message" THEN MessageBlock(erdResult.msg)
    ELSE IF erdResult.k = "table"
    THEN <<H(3, erdResult.table.name), Blank, B("description", <<>>), Blank>>
         \o (IF Len(erdResult.table.columns) > 0
             THEN <<B("columnsHeader", <<>>), B("columnsRule", <<>>)>>
                  \o ColumnRows(erdResult.table.columns) \o <<Blank>>
             ELSE <<>>)
    ELSE <<B("No ERD information available for this entity.", <<>>), Blank>>

RECURSIVE NamedBlocks(_)
NamedBlocks(names) ==
    IF names = <<>> THEN <<>>
    ELSE <<H(4, Head(names)), Blank>> \o NamedBlocks(Tail(names))

RECURSIVE EndpointBlocks(_)
EndpointBlocks(plist) ==
    IF plist = <<>> THEN <<>>
    ELSE <<H(4, Head(plist).key), Blank>>
         \o [i \in 1..(2 * Len(Head(plist).methods)) |->
                IF i % 2 = 1
                THEN H(5, toUpperCase(Head(plist).methods[(i + 1) \div 2]))
                ELSE Blank]
         \o EndpointBlocks(Tail(plist))

\* The Swagger section of combineMarkdownResults.
SwaggerSectionMd(avail, swaggerResult) ==
    <<H(2, S_SwSection), Blank>> \o
    IF ~avail THEN <<SwaggerNotConfiguredMd, Blank>>
    ELSE IF swaggerResult.k = "string" THEN StringBlock(swaggerResult)
    ELSE IF swaggerResult.k = "message" THEN MessageBlock(swaggerResult.msg)
    ELSE LET ps == IF swaggerResult.k = "swagger" THEN swaggerResult.paths
                   ELSE IF swaggerResult.k = "raw" /\ swaggerResult.v.paths = "object"
                   THEN swaggerResult.v.plist ELSE <<>>
             ss == IF swaggerResult.k = "swagger" THEN swaggerResult.schemas ELSE <<>>
         IN  (IF ps # <<>> THEN <<H(3, S_ApiEndpoints), Blank>> \o EndpointBlocks(ps)
              ELSE <<>>)
             \o (IF ss # <<>> THEN <<H(3, S_ApiModels), Blank>> \o NamedBlocks(ss)
                 ELSE <<>>)
             \o (IF ps = <<>> /\ ss = <<>>
                 THEN <<B("No Swagger information available for this entity.", <<>>), Blank>>
                 ELSE <<>>)

\* The MongoDB section of combineMarkdownResults.
MongoSectionMd(avail, mongoResult) ==
    <<H(2, S_MongoSection), Blank>> \o
    IF ~avail THEN <<MongoNotConfiguredMd, Blank>>
    ELSE IF mongoResult.k = "message" THEN MessageBlock(mongoResult.msg)
    ELSE <<B("collection", <<>>), Blank>>

\* Reading .message of a null result throws a TypeError.
CombineThrows(avail, sources) ==
    \E s \in SourceNames : avail[s] /\ sources[s].k = "null"

\* combineMarkdownResults
combineMarkdownResults(query, entityName, avail, sources) ==
    <<H(1, S_Comprehensive \o entityName), Blank, B("query", query), Blank>>
    \o (IF Cardinality({s \in SourceNames : avail[s]}) < 3
        THEN <<B("note", <<>>), Blank>> ELSE <<>>)
    \o ErdSectionMd(avail.erd, sources.erd)
    \o SwaggerSectionMd(avail.swagger, sources.swagger)
    \o MongoSectionMd(avail.mongodb, sources.mongodb)

EntityUnresolved ==
    ContentResponse(TextPlain(Msg("Could not determine which data entity you're asking about. Please specify a collection/table/entity name in your query.", <<>>)))

ComprehensiveFailure ==
    ContentResponse(TextPlain(Msg("Failed to retrieve comprehensive data information: ", <<>>)))

\* The end of execute, from the format test on.
Compose(query, entityName, format, avail, sources) ==
    IF format = "markdown"
    THEN IF CombineThrows(avail, sources) THEN ComprehensiveFailure
         ELSE ContentResponse(TextMd(combineMarkdownResults(query, entityName, avail, sources)))
    ELSE ContentResponse(TextJson(JsonResult(query, entityName, avail, sources)))

-----------------------------------------------------------------------------
(* The state of an invocation.                                             *)

Formats == {"json", "markdown"}

NoQuery   == [given |-> FALSE, s |-> <<>>, json |-> FALSE]
\* A filter that parses as JSON and one that does not.
QueryAll  == [given |-> TRUE, s |-> <<"{","}">>, json |-> TRUE]
QueryBad  == [given |-> TRUE, s |-> <<"{","a">>, json |-> FALSE]

NoRequest ==
    [action |-> "none", collection |-> NoStr, query |-> NoQuery,
     format |-> "json", limit |-> NoNum]

IdleInput ==
    [tool |-> "none", query |-> <<>>, format |-> "json", path |-> NoPath,
     request |-> NoRequest]

IdleLocal ==
    [entityName |-> <<>>,
     sources |-> [s \in SourceNames |-> SlotNull],
     direct |-> NoResult,      \* getSwaggerInfo: directPathResponse
     inst |-> "none",          \* the MongoDBTool instance execute runs on
     request |-> NoRequest,    \* the input of MongoDBTool.execute
     stage |-> 0,              \* getMongoDBInfo: 1 describing, 2 sampling
     schema |-> NoResult,      \* getMongoDBInfo: schemaResponse
     total |-> 0,              \* runQuery: total
     counted |-> 0]            \* listCollections: the counts that have settled

IdleNet ==
    [erdGets |-> 0, swaggerGets |-> 0, connects |-> 0, storeOps |-> 0,
     inflight |-> "none"]

\* The two MongoDBTool instances of the process: the registered tool and the
\* one DataExplorerTool's constructor creates.
MongoInstances == {"server", "explorer"}

CallIds == DOMAIN pc

Ready(c) == pc[c] = "idle"

\* A new invocation with input `in` and locals `loc`, standing at `at`.
BeginWith(c, in, at, loc) ==
    /\ Ready(c)
    /\ input' = [input EXCEPT ![c] = in]
    /\ pc' = [pc EXCEPT ![c] = at]
    /\ local' = [local EXCEPT ![c] = loc]
    /\ result' = [result EXCEPT ![c] = NoResult]
    /\ net' = [net EXCEPT ![c] = IdleNet]

Begin(c, in, at) == BeginWith(c, in, at, IdleLocal)

\* execute returns value.
Return(c, value) ==
    /\ result' = [result EXCEPT ![c] = value]
    /\ pc' = [pc EXCEPT ![c] = "done"]

World == <<env, available, erdSrv, swaggerSrv, store>>

\* The caller has the value: the invocation is over and its frame is gone.
Finish(c) ==
    /\ pc[c] = "done"
    /\ pc' = [pc EXCEPT ![c] = "idle"]
    /\ input' = [input EXCEPT ![c] = IdleInput]
    /\ local' = [local EXCEPT ![c] = IdleLocal]
    /\ result' = [result EXCEPT ![c] = NoResult]
    /\ net' = [net EXCEPT ![c] = IdleNet]
    /\ UNCHANGED <<env, available, erdSrv, swaggerSrv, store, mongoClient>>

-----------------------------------------------------------------------------
(* get_erd and get_swagger.                                                *)

\* get_erd is called: ERDTool.execute up to its GET.
ErdInvoke(c) ==
    /\ \E f \in Formats :
         Begin(c, [IdleInput EXCEPT !.tool = "get_erd", !.format = f], "erd_start")
    /\ UNCHANGED <<World, mongoClient>>

ErdStart(c) ==
    /\ pc[c] = "erd_start"
    /\ IF ~env.erd
       THEN /\ Return(c, ErdNotSet)
            /\ UNCHANGED net
       ELSE /\ pc' = [pc EXCEPT ![c] = "erd_wait"]
            /\ net' = [net EXCEPT ![c].erdGets = @ + 1, ![c].inflight = "erd"]
            /\ UNCHANGED result
    /\ UNCHANGED <<World, mongoClient, input, local>>

\* The GET settles.
ErdRecv(c) ==
    /\ pc[c] = "erd_wait"
    /\ Return(c, ErdExecuteAfterGet(input[c].format, erdSrv))
    /\ net' = [net EXCEPT ![c].inflight = "none"]
    /\ UNCHANGED <<World, mongoClient, input, local>>

\* get_swagger is called.
SwaggerPaths ==
    {NoPath, SomePath(S_slash_ab), SomePath(S_slash_cd), SomePath(<<"/","a">>),
     SomePath(S_constructor), SomePath(S_lookupGetter), SomePath(<<>>)}

SwaggerInvoke(c) ==
    /\ \E f \in Formats, p \in SwaggerPaths :
         Begin(c, [IdleInput EXCEPT !.tool = "get_swagger", !.format = f, !.path = p],
               "sw_start")
    /\ UNCHANGED <<World, mongoClient>>

\* execute without the test of swaggerApiUrl: the GET is sent in any case.
MutSwaggerStart(c) ==
    /\ pc[c] = "sw_start"
    /\ pc' = [pc EXCEPT ![c] = "sw_wait"]
    /\ net' = [net EXCEPT ![c].swaggerGets = @ + 1, ![c].inflight = "swagger"]
    /\ UNCHANGED <<World, mongoClient, input, local, result>>

SwaggerStart(c) ==
    /\ pc[c] = "sw_start"
    /\ IF ~env.swagger
       THEN /\ Return(c, SwaggerNotSet)
            /\ UNCHANGED net
       ELSE /\ pc' = [pc EXCEPT ![c] = "sw_wait"]
            /\ net' = [net EXCEPT ![c].swaggerGets = @ + 1, ![c].inflight = "swagger"]
            /\ UNCHANGED result
    /\ UNCHANGED <<World, mongoClient, input, local>>

SwaggerRecv(c) ==
    /\ pc[c] = "sw_wait"
    /\ Return(c, SwaggerExecuteAfterGet(input[c].format, input[c].path, swaggerSrv))
    /\ net' = [net EXCEPT ![c].inflight = "none"]
    /\ UNCHANGED <<World, mongoClient, input, local>>

-----------------------------------------------------------------------------
(* get_erd, the variant that returns bare values.                          *)

ErdLegacyNotSet ==
    ErrorObject(Msg("ERD_API_URL is not set in the environment variables", <<>>))

ErdLegacyInvoke(c) ==
    /\ \E f \in Formats :
         Begin(c, [IdleInput EXCEPT !.tool = "get_erd_bare", !.format = f], "erdl_start")
    /\ UNCHANGED <<World, mongoClient>>

ErdLegacyStart(c) ==
    /\ pc[c] = "erdl_start"
    /\ IF ~env.erd
       THEN /\ Return(c, ErdLegacyNotSet)
            /\ UNCHANGED net
       ELSE /\ pc' = [pc EXCEPT ![c] = "erdl_wait"]
            /\ net' = [net EXCEPT ![c].erdGets = @ + 1, ![c].inflight = "erd"]
            /\ UNCHANGED result
    /\ UNCHANGED <<World, mongoClient, input, local>>

\* ERDTool.execute (bare variant) once the GET has settled.
ErdLegacyExecuteAfterGet(format, srv) ==
    IF ~srv.up
    THEN ErrorObject(Msg("Failed to retrieve ERD information: ", <<>>))
    ELSE IF format = "markdown"
         THEN BareString(ErdConvertToMarkdown(srv.data))
         ELSE BareObject(srv.data)

ErdLegacyRecv(c) ==
    /\ pc[c] = "erdl_wait"
    /\ Return(c, ErdLegacyExecuteAfterGet(input[c].format, erdSrv))
    /\ net' = [net EXCEPT ![c].inflight = "none"]
    /\ UNCHANGED <<World, mongoClient, input, local>>

-----------------------------------------------------------------------------
(* MongoDBTool.execute, run by mongodb_explorer and by getMongoDBInfo.     *)

InMongo(c) == local[c].inst \in MongoInstances

\* MongoDBTool.execute returns value: to the caller of the tool, or to
\* getMongoDBInfo, which goes on from there.
MongoDeliver(c, value) ==
    IF input[c].tool = "mongodb_explorer"
    THEN /\ Return(c, value)
         /\ local' = [local EXCEPT ![c].inst = "none"]
    ELSE /\ UNCHANGED result
         /\ IF local[c].stage = 1
            THEN LET outcome == SchemaOutcome(value, local[c].entityName, input[c].format) IN
                 IF outcome.k = "continue"
                 THEN /\ pc' = [pc EXCEPT ![c] = "m_start"]
                      /\ local' = [local EXCEPT
                            ![c].schema = value,
                            ![c].stage = 2,
                            ![c].request = SampleRequest(local[c].entityName, input[c].format)]
                 ELSE /\ pc' = [pc EXCEPT ![c] = "de_compose"]
                      /\ local' = [local EXCEPT ![c].sources.mongodb = outcome,
                                                ![c].inst = "none"]
            ELSE /\ pc' = [pc EXCEPT ![c] = "de_compose"]
                 /\ local' = [local EXCEPT
                       ![c].sources.mongodb =
                           SampleOutcome(local[c].schema, value, input[c].format),
                       ![c].inst = "none"]

MongoRequests ==
    {[NoRequest EXCEPT !.action = "listCollections", !.format = f] : f \in Formats}
    \cup {[NoRequest EXCEPT !.action = a, !.collection = col, !.format = f, !.limit = l] :
            a \in {"describeCollection", "sampleData"},
            col \in {NoStr, SomeStr(S_ab), SomeStr(S_cd)},
            f \in Formats, l \in {NoNum, SomeNum(0), SomeNum(1)}}
    \cup {[NoRequest EXCEPT !.action = "query", !.collection = col, !.query = q,
                            !.format = f, !.limit = l] :
            col \in {NoStr, SomeStr(S_ab)},
            q \in {NoQuery, QueryAll, QueryBad},
            f \in Formats, l \in {NoNum, SomeNum(1)}}

\* mongodb_explorer is called with one of the requests reqs.
MongoInvokeWith(c, reqs) ==
    /\ \E r \in reqs :
         BeginWith(c, [IdleInput EXCEPT !.tool = "mongodb_explorer", !.format = r.format,
                                       !.request = r],
                   "m_start", [IdleLocal EXCEPT !.inst = "server", !.request = r])
    /\ UNCHANGED <<World, mongoClient>>

\* mongodb_explorer is called.
MongoInvoke(c) == MongoInvokeWith(c, MongoRequests)

\* getClient that stores the handle only once connect() has resolved: while
\* one call is connecting, the next one still finds no handle.
MutMongoGetClient(c) ==
    /\ pc[c] = "m_start"
    /\ InMongo(c)
    /\ IF mongoClient[local[c].inst] \notin {"null", "connecting"}
       THEN /\ pc' = [pc EXCEPT ![c] = "m_switch"]
            /\ UNCHANGED <<mongoClient, net, local, result>>
       ELSE IF ~(env.mongoUri \/ env.mongoConn)
       THEN /\ MongoDeliver(c, NoConnString)
            /\ UNCHANGED <<mongoClient, net>>
       ELSE /\ mongoClient' = [mongoClient EXCEPT ![local[c].inst] = "connecting"]
            /\ pc' = [pc EXCEPT ![c] = "m_connecting"]
            /\ net' = [net EXCEPT ![c].connects = @ + 1, ![c].inflight = "connect"]
            /\ UNCHANGED <<local, result>>
    /\ UNCHANGED <<World, input>>

\* getClient: an existing handle is returned as it is; without a connection
\* string the call fails; else a handle is created and connect() awaited.
MongoGetClient(c) ==
    /\ pc[c] = "m_start"
    /\ InMongo(c)
    /\ IF mongoClient[local[c].inst] # "null"
       THEN /\ pc' = [pc EXCEPT ![c] = "m_switch"]
            /\ UNCHANGED <<mongoClient, net, local, result>>
       ELSE IF ~(env.mongoUri \/ env.mongoConn)
       THEN /\ MongoDeliver(c, NoConnString)
            /\ UNCHANGED <<mongoClient, net>>
       ELSE /\ mongoClient' = [mongoClient EXCEPT ![local[c].inst] = "connecting"]
            /\ pc' = [pc EXCEPT ![c] = "m_connecting"]
            /\ net' = [net EXCEPT ![c].connects = @ + 1, ![c].inflight = "connect"]
            /\ UNCHANGED <<local, result>>
    /\ UNCHANGED <<World, input>>

\* connect() settles.  A rejection leaves the handle in this.mongoClient.
MongoConnectDone(c) ==
    /\ pc[c] = "m_connecting"
    /\ net' = [net EXCEPT ![c].inflight = "none"]
    /\ IF store.up
       THEN /\ mongoClient' = [mongoClient EXCEPT ![local[c].inst] = "connected"]
            /\ pc' = [pc EXCEPT ![c] = "m_switch"]
            /\ UNCHANGED <<local, result>>
       ELSE /\ mongoClient' = [mongoClient EXCEPT ![local[c].inst] = "failed"]
            /\ MongoDeliver(c, MongoFailed)
    /\ UNCHANGED <<World, input>>

\* The switch of execute, up to the first operation on the store.
MongoSwitch(c) ==
    /\ pc[c] = "m_switch"
    /\ LET r == local[c].request IN
       IF r.action # "listCollections" /\ Falsy(r.collection)
       THEN MongoDeliver(c, CollectionMissing) /\ UNCHANGED net
       ELSE IF r.action = "query" /\ Falsy(r.query)
       THEN MongoDeliver(c, QueryMissing) /\ UNCHANGED net
       ELSE IF r.action = "query" /\ ~r.query.json
       THEN MongoDeliver(c, InvalidQuery) /\ UNCHANGED net
       ELSE /\ pc' = [pc EXCEPT ![c] = "m_op1"]
            /\ net' = [net EXCEPT ![c].storeOps = @ + 1, ![c].inflight = "store"]
            /\ UNCHANGED <<local, result>>
    /\ UNCHANGED <<World, mongoClient, input>>

\* The first operation settles: listCollections().toArray(),
\* find().limit(100).toArray(), aggregate([{$sample}]).toArray() or
\* countDocuments(query).
MongoOp1(c) ==
    /\ pc[c] = "m_op1"
    /\ LET r    == local[c].request
           docs == DocsOf(store, r.collection.s)
       IN
       IF ~store.up
       THEN MongoDeliver(c, MongoFailed) /\ net' = [net EXCEPT ![c].inflight = "none"]
       ELSE IF r.action = "listCollections"
       THEN IF store.names = <<>>
            THEN /\ MongoDeliver(c, MongoFinish(MCollections(<<>>), r))
                 /\ net' = [net EXCEPT ![c].inflight = "none"]
            ELSE /\ pc' = [pc EXCEPT ![c] = "m_op2"]
                 /\ net' = [net EXCEPT ![c].storeOps = @ + Len(store.names)]
                 /\ local' = [local EXCEPT ![c].counted = 0]
                 /\ UNCHANGED result
       ELSE IF r.action = "describeCollection"
       THEN IF Len(FirstN(docs, DescribeSample)) = 0
            THEN /\ MongoDeliver(c, MongoFinish(describeCollection(r.collection.s, <<>>), r))
                 /\ net' = [net EXCEPT ![c].inflight = "none"]
            ELSE /\ pc' = [pc EXCEPT ![c] = "m_op2"]
                 /\ net' = [net EXCEPT ![c].storeOps = @ + 1]
                 /\ UNCHANGED <<local, result>>
       ELSE IF r.action = "sampleData"
       THEN /\ \E s \in Samples(docs, EffectiveLimit(r.limit)) :
                 MongoDeliver(c, MongoFinish(MSample(s), r))
            /\ net' = [net EXCEPT ![c].inflight = "none"]
       ELSE /\ pc' = [pc EXCEPT ![c] = "m_op2"]
            /\ net' = [net EXCEPT ![c].storeOps = @ + 1]
            /\ local' = [local EXCEPT ![c].total = Len(docs)]
            /\ UNCHANGED result
    /\ UNCHANGED <<World, mongoClient, input>>

\* The second operation settles: the counts and statistics of every
\* collection, countDocuments(), or find(query).limit(limit).toArray().
MongoOp2(c) ==
    /\ pc[c] = "m_op2"
    /\ LET r    == local[c].request
           docs == DocsOf(store, r.collection.s)
           done == net' = [net EXCEPT ![c].inflight = "none"]
       IN
       IF ~store.up THEN MongoDeliver(c, MongoFailed) /\ done
       ELSE IF r.action = "listCollections" /\ local[c].counted < Len(store.names)
       THEN \* a countDocuments settles and the collStats command of its
            \* collection is sent
            /\ local' = [local EXCEPT ![c].counted = @ + 1]
            /\ net' = [net EXCEPT ![c].storeOps = @ + 1]
            /\ UNCHANGED <<pc, result>>
       ELSE /\ done
            /\ IF r.action = "listCollections"
               THEN MongoDeliver(c, MongoFinish(
                        MCollections(CollectionInfos(store, store.names)), r))
               ELSE IF r.action = "describeCollection"
               THEN MongoDeliver(c, MongoFinish(
                        describeCollection(r.collection.s, FirstN(docs, DescribeSample)), r))
               ELSE MongoDeliver(c, MongoFinish(
                        MQuery(FirstN(docs, EffectiveLimit(r.limit)), local[c].total), r))
    /\ UNCHANGED <<World, mongoClient, input>>

-----------------------------------------------------------------------------
(* data_explorer.                                                          *)

Queries == {<<"a","b">>, <<"T","h","e"," ","A","B">>, <<"i","n","f","o">>, <<>>}

\* data_explorer is called.
ExploreInvoke(c) ==
    /\ \E q \in Queries, f \in Formats :
         Begin(c, [IdleInput EXCEPT !.tool = "data_explorer", !.query = q, !.format = f],
               "de_resolve")
    /\ UNCHANGED <<World, mongoClient>>

\* execute without the test of entityName.
MutExploreResolve(c) ==
    /\ pc[c] = "de_resolve"
    /\ pc' = [pc EXCEPT ![c] = "de_erd"]
    /\ local' = [local EXCEPT ![c].entityName = ResolveEntity(input[c].query)]
    /\ UNCHANGED <<World, mongoClient, input, net, result>>

\* execute, from its start to the test of entityName.
ExploreResolve(c) ==
    /\ pc[c] = "de_resolve"
    /\ LET entityName == ResolveEntity(input[c].query) IN
       IF entityName = <<>>
       THEN /\ Return(c, EntityUnresolved)
            /\ UNCHANGED local
       ELSE /\ pc' = [pc EXCEPT ![c] = "de_erd"]
            /\ local' = [local EXCEPT ![c].entityName = entityName]
            /\ UNCHANGED result
    /\ UNCHANGED <<World, mongoClient, input, net>>

\* The ERD lookup started without being awaited: execute goes on to the
\* Swagger lookup while the GET is outstanding.
MutExploreErd(c) ==
    /\ pc[c] = "de_erd"
    /\ pc' = [pc EXCEPT ![c] = "de_swagger"]
    /\ IF available.erd /\ env.erd
       THEN net' = [net EXCEPT ![c].erdGets = @ + 1, ![c].inflight = "erd"]
       ELSE UNCHANGED net
    /\ UNCHANGED <<World, mongoClient, input, result, local>>

\* if (sources.erd.available) ... getERDInfo: erdTool.execute up to its GET.
\* The erdTool of DataExplorerTool is the class of ERDTool.ts, the variant
\* that returns bare values.
ExploreErd(c) ==
    /\ pc[c] = "de_erd"
    /\ IF ~available.erd
       THEN /\ pc' = [pc EXCEPT ![c] = "de_swagger"]
            /\ UNCHANGED <<local, net>>
       ELSE IF ~env.erd
       THEN /\ pc' = [pc EXCEPT ![c] = "de_swagger"]
            /\ local' = [local EXCEPT ![c].sources.erd =
                  getERDInfoAfter(ErdLegacyNotSet, local[c].entityName, input[c].format)]
            /\ UNCHANGED net
       ELSE /\ pc' = [pc EXCEPT ![c] = "de_erd_wait"]
            /\ net' = [net EXCEPT ![c].erdGets = @ + 1, ![c].inflight = "erd"]
            /\ UNCHANGED local
    /\ UNCHANGED <<World, mongoClient, input, result>>

\* A getERDInfo that throws on the error object of a failed GET: the
\* exception reaches the catch of execute.
MutExploreErdRecv(c) ==
    /\ pc[c] = "de_erd_wait"
    /\ net' = [net EXCEPT ![c].inflight = "none"]
    /\ LET response == ErdLegacyExecuteAfterGet(input[c].format, erdSrv) IN
       IF response.shape = "error"
       THEN /\ Return(c, ComprehensiveFailure)
            /\ UNCHANGED local
       ELSE /\ pc' = [pc EXCEPT ![c] = "de_swagger"]
            /\ local' = [local EXCEPT ![c].sources.erd =
                  getERDInfoAfter(response, local[c].entityName, input[c].format)]
            /\ UNCHANGED result
    /\ UNCHANGED <<World, mongoClient, input>>

\* The GET settles; getERDInfo narrows the response.
ExploreErdRecv(c) ==
    /\ pc[c] = "de_erd_wait"
    /\ pc' = [pc EXCEPT ![c] = "de_swagger"]
    /\ net' = [net EXCEPT ![c].inflight = "none"]
    /\ local' = [local EXCEPT ![c].sources.erd =
          getERDInfoAfter(ErdLegacyExecuteAfterGet(input[c].format, erdSrv),
                          local[c].entityName, input[c].format)]
    /\ UNCHANGED <<World, mongoClient, input, result>>

\* if (sources.swagger.available) ... getSwaggerInfo: the first
\* swaggerTool.execute, with path `/${entityName}`, up to its GET.
ExploreSwagger(c) ==
    /\ pc[c] = "de_swagger"
    /\ IF ~available.swagger
       THEN /\ pc' = [pc EXCEPT ![c] = "de_mongo"]
            /\ UNCHANGED <<local, net>>
       ELSE IF ~env.swagger
       THEN /\ pc' = [pc EXCEPT ![c] = "de_mongo"]
            /\ local' = [local EXCEPT ![c].sources.swagger =
                  getSwaggerInfoAfter(SwaggerNotSet, SwaggerNotSet,
                                      local[c].entityName, input[c].format)]
            /\ UNCHANGED net
       ELSE /\ pc' = [pc EXCEPT ![c] = "de_sw_wait1"]
            /\ net' = [net EXCEPT ![c].swaggerGets = @ + 1, ![c].inflight = "swagger"]
            /\ UNCHANGED local
    /\ UNCHANGED <<World, mongoClient, input, result>>

\* The first GET settles; the second swaggerTool.execute, without path,
\* sends its own.
ExploreSwaggerRecv1(c) ==
    /\ pc[c] = "de_sw_wait1"
    /\ pc' = [pc EXCEPT ![c] = "de_sw_wait2"]
    /\ local' = [local EXCEPT ![c].direct =
          SwaggerExecuteAfterGet(input[c].format, DirectPath(local[c].entityName),
                                 swaggerSrv)]
    /\ net' = [net EXCEPT ![c].swaggerGets = @ + 1]
    /\ UNCHANGED <<World, mongoClient, input, result>>

\* The second GET settles; getSwaggerInfo narrows the two responses.
ExploreSwaggerRecv2(c) ==
    /\ pc[c] = "de_sw_wait2"
    /\ pc' = [pc EXCEPT ![c] = "de_mongo"]
    /\ net' = [net EXCEPT ![c].inflight = "none"]
    /\ local' = [local EXCEPT ![c].sources.swagger =
          getSwaggerInfoAfter(local[c].direct,
                              SwaggerExecuteAfterGet(input[c].format, NoPath, swaggerSrv),
                              local[c].entityName, input[c].format)]
    /\ UNCHANGED <<World, mongoClient, input, result>>

\* if (sources.mongodb.available) ... getMongoDBInfo: mongodbTool.execute
\* with action describeCollection is entered.
ExploreMongo(c) ==
    /\ pc[c] = "de_mongo"
    /\ IF ~available.mongodb
       THEN /\ pc' = [pc EXCEPT ![c] = "de_compose"]
            /\ UNCHANGED local
       ELSE /\ pc' = [pc EXCEPT ![c] = "m_start"]
            /\ local' = [local EXCEPT
                  ![c].inst = "explorer",
                  ![c].stage = 1,
                  ![c].request = DescribeRequest(local[c].entityName, input[c].format,
                                                 DefaultLimit)]
    /\ UNCHANGED <<World, mongoClient, input, result, net>>

\* The result is composed and returned.
ExploreCompose(c) ==
    /\ pc[c] = "de_compose"
    /\ Return(c, Compose(input[c].query, local[c].entityName, input[c].format,
                         available, local[c].sources))
    /\ UNCHANGED <<World, mongoClient, input, local, net>>

-----------------------------------------------------------------------------
(* The server.                                                             *)

\* The constructor of DataExplorerTool.
AvailableFrom(e) ==
    [erd |-> e.erd, swagger |-> e.swagger, mongodb |-> e.mongoUri \/ e.mongoConn]

Doc1 == <<KV(S_id, VObjectId), KV(S_a, VObject(<<KV(S_b, VNumber)>>))>>
Doc2 == <<KV(S_id, VObjectId), KV(S_a, VNull), KV(S_b, VArray)>>

StoreDown  == [up |-> FALSE, names |-> <<>>, colls |-> <<>>]
StoreEmpty == [up |-> TRUE, names |-> <<>>, colls |-> <<>>]
StoreAb    == [up |-> TRUE, names |-> <<S_ab>>,
               colls |-> [n \in {S_ab} |-> <<Doc1, Doc2>>]]

ErdStates ==
    {Down, Serving(ErdStr), Serving(ErdNull),
     Serving(ErdDoc(<<Table(S_xab, <<>>),
                      Table(S_AB, <<Column(S_id, S_int, TRUE, FALSE)>>)>>)),
     Serving(ErdDoc(<<Table(S_cd, <<>>)>>)),
     Serving(ErdDoc(<<NamelessTable>>))}

SwaggerStates ==
    {Down, Serving(SwStr), Serving(SwNull),
     Serving(SwObj(TRUE, <<PathEntry(S_slash_ab, <<S_get>>),
                           PathEntry(S_slash_cd, <<S_get, S_post>>)>>,
                   TRUE, <<S_Ab>>)),
     Serving(SwObj(TRUE, <<PathEntry(S_slash_cd, <<S_get>>)>>, TRUE, <<S_Cd>>)),
     Serving(SwObj(FALSE, <<>>, TRUE, <<S_Ab, S_Cd>>))}

StoreStates == {StoreDown, StoreEmpty, StoreAb}

Calls == {1}

InitCalls ==
    /\ mongoClient = [i \in MongoInstances |-> "null"]
    /\ pc = [c \in Calls |-> "idle"]
    /\ input = [c \in Calls |-> IdleInput]
    /\ local = [c \in Calls |-> IdleLocal]
    /\ result = [c \in Calls |-> NoResult]
    /\ net = [c \in Calls |-> IdleNet]

\* A source that is not configured is never contacted: its state is left at
\* one value.
Init ==
    /\ env \in [erd : BOOLEAN, swagger : BOOLEAN, mongoUri : BOOLEAN, mongoConn : BOOLEAN]
    /\ available = AvailableFrom(env)
    /\ erdSrv \in (IF env.erd THEN ErdStates ELSE {Down})
    /\ swaggerSrv \in (IF env.swagger THEN SwaggerStates ELSE {Down})
    /\ store \in (IF env.mongoUri \/ env.mongoConn THEN StoreStates ELSE {StoreDown})
    /\ InitCalls

Next ==
    \/ \E c \in CallIds : ErdInvoke(c)
    \/ \E c \in CallIds : ErdStart(c)
    \/ \E c \in CallIds : ErdRecv(c)
    \/ \E c \in CallIds : ErdLegacyInvoke(c)
    \/ \E c \in CallIds : ErdLegacyStart(c)
    \/ \E c \in CallIds : ErdLegacyRecv(c)
    \/ \E c \in CallIds : SwaggerInvoke(c)
    \/ \E c \in CallIds : SwaggerStart(c)
    \/ \E c \in CallIds : SwaggerRecv(c)
    \/ \E c \in CallIds : MongoInvoke(c)
    \/ \E c \in CallIds : MongoGetClient(c)
    \/ \E c \in CallIds : MongoConnectDone(c)
    \/ \E c \in CallIds : MongoSwitch(c)
    \/ \E c \in CallIds : MongoOp1(c)
    \/ \E c \in CallIds : MongoOp2(c)
    \/ \E c \in CallIds : ExploreInvoke(c)
    \/ \E c \in CallIds : ExploreResolve(c)
    \/ \E c \in CallIds : ExploreErd(c)
    \/ \E c \in CallIds : ExploreErdRecv(c)
    \/ \E c \in CallIds : ExploreSwagger(c)
    \/ \E c \in CallIds : ExploreSwaggerRecv1(c)
    \/ \E c \in CallIds : ExploreSwaggerRecv2(c)
    \/ \E c \in CallIds : ExploreMongo(c)
    \/ \E c \in CallIds : ExploreCompose(c)
    \/ \E c \in CallIds : Finish(c)

Spec == Init /\ [][Next]_vars

-----------------------------------------------------------------------------
(* Entity resolution on its own: every query of at most MaxQueryLen        *)
(* characters over a small alphabet is resolved.                           *)

QueryAlphabet == {"i", "n", "I", "x", " ", "_"}

RECURSIVE StringsUpTo(_)
StringsUpTo(n) ==
    IF n = 0 THEN {<<>>}
    ELSE LET shorter == StringsUpTo(n - 1)
         IN  shorter \cup {Append(s, ch) : s \in {t \in shorter : Len(t) = n - 1},
                                            ch \in QueryAlphabet}

NothingConfigured ==
    [erd |-> FALSE, swagger |-> FALSE, mongoUri |-> FALSE, mongoConn |-> FALSE]

InitResolve ==
    /\ env = NothingConfigured
    /\ available = AvailableFrom(env)
    /\ erdSrv = Down
    /\ swaggerSrv = Down
    /\ store = StoreDown
    /\ mongoClient = [i \in MongoInstances |-> "null"]
    /\ pc = [c \in Calls |-> "de_resolve"]
    /\ input \in [Calls -> {[IdleInput EXCEPT !.tool = "data_explorer", !.query = q] :
                              q \in StringsUpTo(MaxQueryLen)}]
    /\ local = [c \in Calls |-> IdleLocal]
    /\ result = [c \in Calls |-> NoResult]
    /\ net = [c \in Calls |-> IdleNet]

NextResolve == \E c \in CallIds : ExploreResolve(c)

SpecResolve == InitResolve /\ [][NextResolve]_vars

-----------------------------------------------------------------------------
(* Claims.                                                                 *)

\* The word tokens of s, stated by position: <<i, j>> is a token when
\* s[i..j] are word characters and neither neighbour is one.
TokenSpans(s) ==
    {sp \in (1..Len(s)) \X (1..Len(s)) :
        /\ sp[1] <= sp[2]
        /\ \A k \in sp[1]..sp[2] : s[k] \in WordChars
        /\ (sp[1] = 1 \/ s[sp[1] - 1] \notin WordChars)
        /\ (sp[2] = Len(s) \/ s[sp[2] + 1] \notin WordChars)}

StopWords == Range(commonWords)

\* The tokens of the lowercased query that are no stop words.
EntitySpans(query) ==
    LET q == toLowerCase(query)
    IN  {sp \in TokenSpans(q) : Slice(q, sp[1], sp[2]) \notin StopWords}

\* The leftmost of them.
FirstEntity(query) ==
    LET q  == toLowerCase(query)
        sp == CHOOSE a \in EntitySpans(query) : \A b \in EntitySpans(query) : a[1] <= b[1]
    IN  Slice(q, sp[1], sp[2])

IsExplore(c) == input[c].tool = "data_explorer"
Resolved(c)  == IsExplore(c) /\ pc[c] \notin {"idle", "de_resolve"}

\* C2: once data_explorer has resolved a query, the entity name is the first
\* token of the lowercased query that is no stop word, and the call has
\* ended with the 'entity unresolved' message exactly when there is none.
C2_EntityResolution ==
    \A c \in CallIds :
        Resolved(c) =>
            IF EntitySpans(input[c].query) # {}
            THEN /\ local[c].entityName = FirstEntity(input[c].query)
                 /\ result[c] # EntityUnresolved
            ELSE /\ pc[c] = "done"
                 /\ result[c] = EntityUnresolved

\* C2 witness: a query whose first token is a stop word in upper case and
\* whose second token became the entity name.
C2_Witness ==
    \E c \in CallIds :
        /\ Resolved(c)
        /\ input[c].query = <<"I", "n", " ", "x", "_">>
        /\ local[c].entityName = <<"x", "_">>


Done(c)     == pc[c] = "done"
Composed(c) == IsExplore(c) /\ Done(c) /\ EntitySpans(input[c].query) # {}
IsJson(c)   == input[c].format = "json"

\* The source was asked: a GET went out, or the store handle was used.
Queried(c, s) ==
    CASE s = "erd"     -> net[c].erdGets >= 1
      [] s = "swagger" -> net[c].swaggerGets >= 1
      [] OTHER         -> net[c].connects + net[c].storeOps >= 1

\* The source cannot answer: the transport fails, or the payload is not a
\* document the narrowing can read.
SourceFails(s) ==
    CASE s = "erd"     -> \/ ~erdSrv.up
                          \/ erdSrv.data = ErdNull
                          \/ erdSrv.data = ErdDoc(<<NamelessTable>>)
      [] s = "swagger" -> ~swaggerSrv.up \/ swaggerSrv.data = SwNull
      [] OTHER         -> ~store.up

\* A slot that holds a sentence rather than data.
InlineMessage(slot) ==
    \/ slot.k = "message"
    \/ slot.k = "string" /\ ~slot.nl /\ Len(slot.lines) = 1 /\ slot.lines[1].lvl = 0

\* The sentence of such a slot as a line of the markdown result.
MessageLine(slot) ==
    IF slot.k = "message" THEN B(slot.msg.m, slot.msg.a) ELSE slot.lines[1]

\* The returned value carries the slot of source s.
Carries(c, s) ==
    /\ result[c].shape = "content"
    /\ IF IsJson(c)
       THEN /\ result[c].text.k = "json"
            /\ s \in DOMAIN result[c].text.v.sources
            /\ result[c].text.v.sources[s] = local[c].sources[s]
       ELSE /\ result[c].text.k = "md"
            /\ \E i \in 1..Len(result[c].text.lines) :
                 result[c].text.lines[i] = MessageLine(local[c].sources[s])

\* C1: when data_explorer has returned for a resolved entity, the value is
\* the combined result and never the top-level failure; every configured
\* source was asked; and a configured source that fails shows in the result
\* as the sentence in its own slot.
C1_PartialFailure ==
    \A c \in CallIds :
        Composed(c) =>
            /\ result[c] # ComprehensiveFailure
            /\ result[c].shape = "content"
            /\ result[c].text.k = (IF IsJson(c) THEN "json" ELSE "md")
            /\ \A s \in SourceNames :
                 available[s] =>
                    /\ Queried(c, s)
                    /\ SourceFails(s) =>
                          /\ InlineMessage(local[c].sources[s])
                          /\ Carries(c, s)

\* C1 witness: all three sources are configured, the ERD endpoint is down,
\* the store is down, and the Swagger slot of the returned JSON holds data.
C1_Witness ==
    \E c \in CallIds :
        /\ Composed(c) /\ IsJson(c)
        /\ \A s \in SourceNames : available[s]
        /\ ~erdSrv.up /\ ~store.up
        /\ result[c].text.v.sources.erd.k = "message"
        /\ result[c].text.v.sources.swagger.k = "swagger"

\* C3: a data_explorer call whose query holds no entity ends with the
\* 'Could not determine' message without a GET, a connection or a store
\* operation; a call whose query holds one returns a result with a part for
\* each of the three sources.
C3_OnlyAbort ==
    \A c \in CallIds :
        IsExplore(c) =>
            IF EntitySpans(input[c].query) = {}
            THEN /\ pc[c] \in {"de_resolve", "done"}
                 /\ net[c] = IdleNet
                 /\ Done(c) => result[c] = EntityUnresolved
            ELSE Done(c) =>
                 /\ result[c] # EntityUnresolved
                 /\ IF IsJson(c)
                    THEN /\ result[c].text.k = "json"
                         /\ DOMAIN result[c].text.v.sources = SourceNames
                    ELSE /\ result[c].text.k = "md"
                         /\ \A h \in {S_ErdSection, S_SwSection, S_MongoSection} :
                              \E i \in 1..Len(result[c].text.lines) :
                                  result[c].text.lines[i] = H(2, h)

\* C3 witness: with all three sources configured, a query of stop words
\* only has returned the message.
C3_Witness ==
    \E c \in CallIds :
        /\ IsExplore(c) /\ Done(c)
        /\ input[c].query = <<"i","n","f","o">>
        /\ \A s \in SourceNames : available[s]
        /\ result[c] = EntityUnresolved

NotConfiguredLines == {ErdNotConfiguredMd, SwaggerNotConfiguredMd, MongoNotConfiguredMd}

NoneConfigured == ~env.erd /\ ~env.swagger /\ ~env.mongoUri /\ ~env.mongoConn

\* C4: with no source configured, data_explorer sends no GET and makes no
\* connection or store operation, and its result for a resolved entity
\* holds exactly three 'not configured' messages, one per source.
C4_NoneConfigured ==
    \A c \in CallIds :
        (IsExplore(c) /\ NoneConfigured) =>
            /\ net[c] = IdleNet
            /\ mongoClient["explorer"] = "null"
            /\ Composed(c) =>
                 IF IsJson(c)
                 THEN /\ result[c].shape = "content" /\ result[c].text.k = "json"
                      /\ DOMAIN result[c].text.v.sources = SourceNames
                      /\ \A s \in SourceNames :
                           result[c].text.v.sources[s] = NotConfiguredJson(SourceStr(s))
                 ELSE /\ result[c].shape = "content" /\ result[c].text.k = "md"
                      /\ \A l \in NotConfiguredLines :
                           Cardinality({i \in 1..Len(result[c].text.lines) :
                                          result[c].text.lines[i] = l}) = 1

\* C4 witness: such a call has returned its markdown result.
C4_Witness ==
    \E c \in CallIds :
        /\ Composed(c) /\ ~IsJson(c) /\ NoneConfigured
        /\ result[c].text.k = "md"

\* JSON data of a slot, as opposed to a sentence or nothing.
DataSlot(slot) == slot.k \in {"table", "raw", "swagger", "mongo"}

\* C5: the JSON result of data_explorer is { query, entityName, sources }
\* with sources holding exactly erd, swagger and mongodb; each of the three
\* is data or a message, the message of an unconfigured source being the
\* 'not configured' one; none is left out or null.
C5_JsonShape ==
    \A c \in CallIds :
        (Composed(c) /\ IsJson(c)) =>
            /\ result[c].shape = "content" /\ result[c].text.k = "json"
            /\ LET r == result[c].text.v IN
               /\ DOMAIN r = {"query", "entityName", "sources"}
               /\ r.query = input[c].query
               /\ r.entityName = FirstEntity(input[c].query)
               /\ DOMAIN r.sources = SourceNames
               /\ \A s \in SourceNames :
                    /\ r.sources[s].k # "null"
                    /\ DataSlot(r.sources[s]) \/ r.sources[s].k = "message"
                    /\ ~available[s] => r.sources[s] = NotConfiguredJson(SourceStr(s))

\* C5 witness: the three sources are configured; the result holds a message
\* for the ERD source, data for Swagger and a message for the store.
C5_Witness ==
    \E c \in CallIds :
        /\ Composed(c) /\ IsJson(c)
        /\ \A s \in SourceNames : available[s]
        /\ erdSrv.up /\ swaggerSrv.up /\ store.up
        /\ result[c].text.v.sources.erd.k = "message"
        /\ DataSlot(result[c].text.v.sources.swagger)
        /\ result[c].text.v.sources.mongodb.k = "message"



-----------------------------------------------------------------------------
(* ERD narrowing on its own: data_explorer, with only the ERD source       *)
(* configured, against every document of at most MaxTables named tables.   *)

MaxTables == 3

TableNames == {S_ab, S_AB, S_xab, S_cd}

RECURSIVE TableLists(_)
TableLists(n) ==
    IF n = 0 THEN {<<>>}
    ELSE LET shorter == TableLists(n - 1)
         IN  shorter \cup {Append(ts, Table(nm, <<>>)) :
                             ts \in {t \in shorter : Len(t) = n - 1}, nm \in TableNames}

ErdQueries == {S_ab, <<"T","h","e"," ","A","B">>, S_cd, S_xab, <<"b">>}

InitErd ==
    /\ env = [NothingConfigured EXCEPT !.erd = TRUE]
    /\ available = AvailableFrom(env)
    /\ erdSrv \in {Serving(ErdDoc(ts)) : ts \in TableLists(MaxTables)}
    /\ swaggerSrv = Down
    /\ store = StoreDown
    /\ mongoClient = [i \in MongoInstances |-> "null"]
    /\ pc = [c \in Calls |-> "de_resolve"]
    /\ input \in [Calls -> {[IdleInput EXCEPT !.tool = "data_explorer", !.query = q,
                                              !.format = f] :
                              q \in ErdQueries, f \in Formats}]
    /\ local = [c \in Calls |-> IdleLocal]
    /\ result = [c \in Calls |-> NoResult]
    /\ net = [c \in Calls |-> IdleNet]

NextErd ==
    \/ \E c \in CallIds : ExploreResolve(c)
    \/ \E c \in CallIds : ExploreErd(c)
    \/ \E c \in CallIds : ExploreErdRecv(c)
    \/ \E c \in CallIds : ExploreSwagger(c)
    \/ \E c \in CallIds : ExploreMongo(c)
    \/ \E c \in CallIds : ExploreCompose(c)

SpecErd == InitErd /\ [][NextErd]_vars

-----------------------------------------------------------------------------
(* Claims on the narrowing of each source.                                 *)

\* t occurs in s.
Occurs(t, s) ==
    \E i \in 0..(Len(s) - Len(t)) : \A k \in 1..Len(t) : s[i + k] = t[k]

\* The entity name of a call that has resolved one.
EntityOf(c) == local[c].entityName

\* C6 (as the specification states it): the Swagger slot of a JSON result
\* is the entry of the exact path '/' + entity when the document has one;
\* otherwise the paths and schemas whose lowercased name contains the entity;
\* otherwise the 'No Swagger information found' message.
C6_SwaggerNarrowing ==
    \A c \in CallIds :
        (Composed(c) /\ IsJson(c) /\ available.swagger
         /\ swaggerSrv.up /\ swaggerSrv.data.k = "obj") =>
            LET d     == swaggerSrv.data
                e     == EntityOf(c)
                ps    == IF d.paths = "object" THEN d.plist ELSE <<>>
                ss    == IF d.schemas = "object" THEN d.slist ELSE <<>>
                exact == SelectSeq(ps, LAMBDA p : p.key = <<"/">> \o e)
                relP  == SelectSeq(ps, LAMBDA p : Occurs(e, toLowerCase(p.key)))
                relS  == SelectSeq(ss, LAMBDA n : Occurs(e, toLowerCase(n)))
                slot  == local[c].sources.swagger
            IN  IF exact # <<>>
                THEN slot.k = "raw" /\ slot.v.plist = exact
                ELSE IF relP # <<>> \/ relS # <<>>
                THEN slot = SlotSwagger(relP, relS)
                ELSE slot = SlotMessage(NoSwaggerInfo(e))

\* C7 (as the specification states it): get_swagger with options.path
\* returns the document with paths cut down to that one entry when the path
\* is a key of paths, and the document unchanged when it is not.
C7_PathFilter ==
    \A c \in CallIds :
        (Done(c) /\ input[c].tool = "get_swagger" /\ IsJson(c) /\ env.swagger
         /\ swaggerSrv.up /\ swaggerSrv.data.k = "obj") =>
            LET d     == swaggerSrv.data
                p     == input[c].path
                isKey == p.given /\ d.paths = "object" /\ p.s \in Keys(d.plist)
                expected ==
                    IF isKey
                    THEN [d EXCEPT !.plist = SelectSeq(d.plist, LAMBDA x : x.key = p.s)]
                    ELSE d
            IN  result[c] = ContentResponse(TextJson(expected))

\* C8 (as the specification states it): when the ERD endpoint answers with a
\* document whose tables all have a name, the ERD slot of a JSON result is
\* the first table, in document order, whose lowercased name equals or
\* contains the entity name, even when a later table matches exactly; when
\* no table matches it is the 'No ERD information found' message.
C8_ErdNarrowing ==
    \A c \in CallIds :
        (IsExplore(c) /\ IsJson(c)
         /\ pc[c] \notin {"idle", "de_resolve", "de_erd", "de_erd_wait"}
         /\ EntitySpans(input[c].query) # {}
         /\ available.erd /\ erdSrv.up /\ erdSrv.data.k = "obj"
         /\ erdSrv.data.tables = "array"
         /\ \A i \in DOMAIN erdSrv.data.list : erdSrv.data.list[i].hasName) =>
            LET ts   == erdSrv.data.list
                e    == EntityOf(c)
                hits == {i \in DOMAIN ts : Occurs(e, toLowerCase(ts[i].name))}
                slot == local[c].sources.erd
            IN  IF hits # {}
                THEN \E i \in hits :
                        /\ \A j \in hits : i <= j
                        /\ slot = SlotTable(ts[i])
                ELSE slot = SlotMessage(NoErdInfo(e))

\* C9 (as the specification states it): with the store reachable, the
\* MongoDB slot holds the schema and the samples of the collection named by
\* the entity, and the 'No MongoDB collection found' message when there is
\* no such collection.
C9_StoreNarrowing ==
    \A c \in CallIds :
        (Composed(c) /\ available.mongodb /\ store.up) =>
            LET slot == local[c].sources.mongodb IN
            IF EntityOf(c) \in Range(store.names)
            THEN slot.k = "mongo" /\ local[c].stage = 2
            ELSE slot = SlotMessage(Msg("No MongoDB collection found with name ",
                                        EntityOf(c)))

\* The value describes a problem: a sentence in text content, or an error
\* object.
DescribesProblem(value) ==
    \/ value.shape = "content" /\ value.text.k = "plain"
    \/ value.shape = "error"

StoreConfigured == env.mongoUri \/ env.mongoConn

\* C10: no execute ever throws; every call that ends, ends with a returned
\* value, and with a missing setting, an endpoint or store that is down, or
\* an entity that cannot be resolved, the value describes the problem.
C10_NeverThrows ==
    \A c \in CallIds :
        /\ result[c].shape # "thrown"
        /\ Done(c) =>
            /\ result[c].shape \in {"content", "error", "object", "string"}
            /\ LET t == input[c].tool IN
               /\ (t \in {"get_erd", "get_erd_bare"} /\ (~env.erd \/ ~erdSrv.up))
                     => DescribesProblem(result[c])
               /\ (t = "get_swagger" /\ (~env.swagger \/ ~swaggerSrv.up))
                     => DescribesProblem(result[c])
               /\ (t = "mongodb_explorer" /\ (~StoreConfigured \/ ~store.up))
                     => DescribesProblem(result[c])
               /\ (t = "mongodb_explorer" /\ ~StoreConfigured) => result[c] = NoConnString
               /\ t = "data_explorer" => result[c].shape = "content"
               /\ (t = "data_explorer" /\ EntitySpans(input[c].query) = {})
                     => DescribesProblem(result[c])

\* C10 witness: mongodb_explorer has returned the error object of a store
\* that cannot be reached.
C10_Witness ==
    \E c \in CallIds :
        /\ Done(c) /\ input[c].tool = "mongodb_explorer"
        /\ StoreConfigured /\ ~store.up
        /\ result[c] = MongoFailed


-----------------------------------------------------------------------------
(* Claims on the return values and the store operations of the tools.      *)

IsMongoCall(c) == input[c].tool = "mongodb_explorer"

\* C11 (as the specification states it): whatever a tool returns, on
\* success and on every error path, is one text item in content, never a
\* bare object, a bare string or an error object.
C11_SingleTextPayload ==
    \A c \in CallIds : Done(c) => result[c].shape = "content"

\* C12 (as the specification states it): the query action with a collection
\* name and a query string that is no JSON returns 'Invalid query format',
\* whatever the state of the store connection, and issues no store
\* operation.
C12_InvalidQuery ==
    \A c \in CallIds :
        (Done(c) /\ IsMongoCall(c)
         /\ input[c].request.action = "query"
         /\ ~Falsy(input[c].request.collection)
         /\ ~Falsy(input[c].request.query)
         /\ ~input[c].request.query.json) =>
            /\ result[c] = InvalidQuery
            /\ net[c].storeOps = 0


-----------------------------------------------------------------------------
(* describeCollection on its own: mongodb_explorer describes a collection  *)
(* of at most MaxDocs documents drawn from DescribeDocs.                   *)

MaxDocs == 2

S_a_dot_b == S_a \o S_dot \o S_b

\* Documents with flat, nested and dotted keys.
DescribeDocs ==
    {<<KV(S_a, VNumber)>>,
     <<KV(S_a, VObject(<<KV(S_b, VNumber)>>))>>,
     <<KV(S_a_dot_b, VString), KV(S_a, VObject(<<KV(S_b, VNumber)>>))>>,
     <<KV(S_a, VNull), KV(S_b, VArray)>>,
     <<KV(S_id, VObjectId)>>,
     <<KV(S_a, VObject(<<KV(S_a, VObject(<<KV(S_b, VNumber)>>))>>))>>}

RECURSIVE DocLists(_)
DocLists(n) ==
    IF n = 0 THEN {<<>>}
    ELSE LET shorter == DocLists(n - 1)
         IN  shorter \cup {Append(ds, d) :
                             ds \in {t \in shorter : Len(t) = n - 1}, d \in DescribeDocs}

DescribeRequests ==
    {[NoRequest EXCEPT !.action = "describeCollection", !.collection = SomeStr(col),
                       !.format = f] : col \in {S_ab, S_cd}, f \in Formats}

InitDescribe ==
    /\ env = [NothingConfigured EXCEPT !.mongoUri = TRUE]
    /\ available = AvailableFrom(env)
    /\ erdSrv = Down
    /\ swaggerSrv = Down
    /\ store \in {[up |-> TRUE, names |-> <<S_ab>>, colls |-> [n \in {S_ab} |-> ds]] :
                    ds \in DocLists(MaxDocs)}
    /\ mongoClient = [i \in MongoInstances |-> "null"]
    /\ pc = [c \in Calls |-> "m_start"]
    /\ \E r \in DescribeRequests :
         /\ input = [c \in Calls |->
                       [IdleInput EXCEPT !.tool = "mongodb_explorer", !.format = r.format,
                                         !.request = r]]
         /\ local = [c \in Calls |-> [IdleLocal EXCEPT !.inst = "server", !.request = r]]
    /\ result = [c \in Calls |-> NoResult]
    /\ net = [c \in Calls |-> IdleNet]

NextDescribe ==
    \/ \E c \in CallIds : MongoGetClient(c)
    \/ \E c \in CallIds : MongoConnectDone(c)
    \/ \E c \in CallIds : MongoSwitch(c)
    \/ \E c \in CallIds : MongoOp1(c)
    \/ \E c \in CallIds : MongoOp2(c)

SpecDescribe == InitDescribe /\ [][NextDescribe]_vars

\* A finished describeCollection call on a store that answers.
Described(c) ==
    /\ Done(c) /\ IsMongoCall(c)
    /\ input[c].request.action = "describeCollection"
    /\ ~Falsy(input[c].request.collection)
    /\ StoreConfigured /\ store.up

\* The documents describeCollection samples for the call.
SampledDocs(c) == FirstN(DocsOf(store, input[c].request.collection.s), DescribeSample)

\* C13: describeCollection on a collection without documents, whether the
\* store knows the collection or not, returns the given name with an empty
\* field list and never an error value.
C13_EmptyCollection ==
    \A c \in CallIds :
        (Described(c) /\ Len(SampledDocs(c)) = 0) =>
            /\ result[c].shape # "error"
            /\ IsJson(c) =>
                 /\ result[c].shape = "object"
                 /\ result[c].value.k = "schema"
                 /\ result[c].value.name = input[c].request.collection.s
                 /\ result[c].value.items = <<>>

\* C13 witness: the store holds the collection ab with no document, and the
\* call has returned its name with no field.
C13_Witness ==
    \E c \in CallIds :
        /\ Described(c) /\ IsJson(c)
        /\ input[c].request.collection.s = S_ab
        /\ S_ab \in Range(store.names) /\ DocsOf(store, S_ab) = <<>>
        /\ result[c].shape = "object"
        /\ result[c].value.name = S_ab /\ result[c].value.items = <<>>

\* C14 (as the specification states it): no field of the schema
\* describeCollection returns has a count above the number of sampled
\* documents.
C14_CountWithinSample ==
    \A c \in CallIds :
        (Described(c) /\ IsJson(c) /\ result[c].shape = "object") =>
            \A i \in DOMAIN result[c].value.items :
                result[c].value.items[i].count <= Len(SampledDocs(c))


\* C15 (as the specification states it): sampleData with a numeric limit
\* returns at most that many documents, and no more than the collection
\* holds.
C15_SampleWithinLimit ==
    \A c \in CallIds :
        (Done(c) /\ IsMongoCall(c) /\ IsJson(c)
         /\ input[c].request.action = "sampleData"
         /\ input[c].request.limit.given
         /\ result[c].shape = "object") =>
            /\ Len(result[c].value.items) <= input[c].request.limit.n
            /\ Len(result[c].value.items) <=
                  Len(DocsOf(store, input[c].request.collection.s))


-----------------------------------------------------------------------------
(* The connection handle under concurrency: up to MaxCalls invocations of  *)
(* mongodb_explorer run on the registered tool instance at the same time.  *)

MaxCalls == 2

HandleRequests ==
    {[NoRequest EXCEPT !.action = "listCollections"],
     [NoRequest EXCEPT !.action = "describeCollection", !.collection = SomeStr(S_ab)],
     [NoRequest EXCEPT !.action = "describeCollection"]}

InitHandle ==
    /\ env = [NothingConfigured EXCEPT !.mongoUri = TRUE]
    /\ available = AvailableFrom(env)
    /\ erdSrv = Down
    /\ swaggerSrv = Down
    /\ store \in {StoreDown, StoreAb}
    /\ mongoClient = [i \in MongoInstances |-> "null"]
    /\ pc = [c \in 1..MaxCalls |-> "idle"]
    /\ input = [c \in 1..MaxCalls |-> IdleInput]
    /\ local = [c \in 1..MaxCalls |-> IdleLocal]
    /\ result = [c \in 1..MaxCalls |-> NoResult]
    /\ net = [c \in 1..MaxCalls |-> IdleNet]

NextHandle ==
    \/ \E c \in CallIds : MongoInvokeWith(c, HandleRequests)
    \/ \E c \in CallIds : MongoGetClient(c)
    \/ \E c \in CallIds : MongoConnectDone(c)
    \/ \E c \in CallIds : MongoSwitch(c)
    \/ \E c \in CallIds : MongoOp1(c)
    \/ \E c \in CallIds : MongoOp2(c)
    \/ \E c \in CallIds : Finish(c)

SpecHandle == InitHandle /\ [][NextHandle]_vars

\* The calls that are awaiting connect() on instance i.
Connecting(i) == {c \in CallIds : pc[c] = "m_connecting" /\ local[c].inst = i}

\* What one step may do to the handle of instance i: a handle, once there,
\* stays; connect() is started only by the step that creates the handle.
HandleStep(i) ==
    /\ mongoClient[i] # "null" => mongoClient'[i] # "null"
    /\ (mongoClient'[i] = "connecting" /\ mongoClient[i] # "connecting")
          => mongoClient[i] = "null"
    /\ \A c \in CallIds :
          (local[c].inst = i /\ net'[c].connects > net[c].connects)
             => mongoClient[i] = "null" /\ mongoClient'[i] = "connecting"

\* C16: however the invocations on one tool instance interleave, at most one
\* of them is awaiting connect() at any time; a handle is created, and
\* connect() started, only while there is no handle, and a handle that has
\* been created is never reset or replaced.
C16_SingleHandle ==
    /\ [](\A i \in MongoInstances : Cardinality(Connecting(i)) <= 1)
    /\ [][\A i \in MongoInstances : HandleStep(i)]_vars

\* C16 witness: one call is awaiting connect() while another call, begun
\* before the connection was there, has been handed the same handle.
C16_Witness ==
    \E c, d \in CallIds :
        /\ c # d
        /\ pc[c] = "m_connecting" /\ local[c].inst = "server"
        /\ pc[d] \in {"m_switch", "m_op1"} /\ local[d].inst = "server"
        /\ mongoClient["server"] = "connecting"
        /\ net[d].connects = 0


\* C17 (as the specification states it): the process holds at most one
\* store connection handle, whatever calls have been made.
C17_OneHandle ==
    Cardinality({i \in MongoInstances : mongoClient[i] # "null"}) <= 1

\* C18 (as the specification states it): a finished mongodb_explorer call
\* that found the store configured but not connected has made exactly one
\* connection attempt of its own, and returned an error value.
C18_AttemptPerCall ==
    \A c \in CallIds :
        (Done(c) /\ IsMongoCall(c) /\ StoreConfigured
         /\ mongoClient["server"] # "connected") =>
            /\ net[c].connects = 1
            /\ result[c].shape = "error"

IsFetch(c) == input[c].tool \in {"get_erd", "get_erd_bare", "get_swagger"}

\* The setting, the GETs and the endpoint of the source a fetch tool reads.
FetchConfigured(c) == IF input[c].tool = "get_swagger" THEN env.swagger ELSE env.erd
FetchGets(c)       == IF input[c].tool = "get_swagger" THEN net[c].swaggerGets
                      ELSE net[c].erdGets
FetchUp(c)         == IF input[c].tool = "get_swagger" THEN swaggerSrv.up ELSE erdSrv.up

\* The value a fetch tool returns when its URL is not set.
FetchNotSet(c) ==
    CASE input[c].tool = "get_swagger" -> SwaggerNotSet
      [] input[c].tool = "get_erd"     -> ErdNotSet
      [] OTHER -> ErrorObject(Msg("ERD_API_URL is not set in the environment variables", <<>>))

\* C19: get_erd and get_swagger never send more than one GET, and none to
\* the other source or to the store; a finished call without the URL has
\* sent none and returned the 'is not set' message; a finished call with
\* the URL has sent exactly one, and when that GET failed the value is an
\* error message, not an exception.
C19_SingleGet ==
    \A c \in CallIds :
        IsFetch(c) =>
            /\ FetchGets(c) <= 1
            /\ net[c].erdGets + net[c].swaggerGets = FetchGets(c)
            /\ net[c].connects + net[c].storeOps = 0
            /\ Done(c) =>
                 IF ~FetchConfigured(c)
                 THEN FetchGets(c) = 0 /\ result[c] = FetchNotSet(c)
                 ELSE /\ FetchGets(c) = 1
                      /\ ~FetchUp(c) => DescribesProblem(result[c])

\* C19 witness: get_swagger, with its URL set and the endpoint down, has
\* returned after one GET.
C19_Witness ==
    \E c \in CallIds :
        /\ Done(c) /\ input[c].tool = "get_swagger"
        /\ env.swagger /\ ~swaggerSrv.up
        /\ net[c].swaggerGets = 1
        /\ DescribesProblem(result[c])

\* C20 (as the specification states it): a call whose request to a source
\* fails sends that source no second request.
C20_NoSecondRequest ==
    \A c \in CallIds :
        /\ ~erdSrv.up => net[c].erdGets <= 1
        /\ ~swaggerSrv.up => net[c].swaggerGets <= 1
        /\ ~store.up => net[c].connects + net[c].storeOps <= 1

-----------------------------------------------------------------------------
(* Start-up: index.ts parses process.argv and overrides process.env.       *)

MaxArgs == 3

S_dashes      == <<"-","-">>
S_eq          == <<"=">>
S_port        == <<"p","o","r","t">>
S_log_level   == <<"l","o","g","-","l","e","v","e","l">>
S_erd_api_url == <<"e","r","d","-","a","p","i","-","u","r","l">>
S_swagger_api_url == <<"s","w","a","g","g","e","r","-","a","p","i","-","u","r","l">>
S_mongodb_uri == <<"m","o","n","g","o","d","b","-","u","r","i">>
S_mongodb_connection_string == <<"m","o","n","g","o","d","b","-","c","o","n","n","e","c","t","i","o","n","-","s","t","r","i","n","g">>
S_a_eq_b      == <<"a","=","b">>

\* String.prototype.startsWith
startsWith(s, prefix) ==
    /\ Len(prefix) <= Len(s)
    /\ SubSeq(s, 1, Len(prefix)) = prefix

\* s.split(sep) for a one-character separator: the pieces between the
\* separators, left to right; cur is the piece being read.
RECURSIVE SplitFrom(_, _, _, _)
SplitFrom(s, sep, i, cur) ==
    IF i > Len(s) THEN <<cur>>
    ELSE IF s[i] = sep THEN <<cur>> \o SplitFrom(s, sep, i + 1, <<>>)
    ELSE SplitFrom(s, sep, i + 1, Append(cur, s[i]))

\* s.split(sep, limit): split at every separator, then keep the first limit
\* pieces.
split(s, sep, limit) == FirstN(SplitFrom(s, sep, 1, <<>>), limit)

\* The recognised flags and the environment variable each one overrides, in
\* the order setEnvFromArgs tests them.
FlagEnv ==
    <<[flag |-> S_mongodb_uri,               name |-> "MONGODB_URI"],
      [flag |-> S_mongodb_connection_string, name |-> "MONGODB_CONNECTION_STRING"],
      [flag |-> S_erd_api_url,               name |-> "ERD_API_URL"],
      [flag |-> S_swagger_api_url,           name |-> "SWAGGER_API_URL"],
      [flag |-> S_port,                      name |-> "PORT"],
      [flag |-> S_log_level,                 name |-> "LOG_LEVEL"]>>

EnvNames == {FlagEnv[k].name : k \in DOMAIN FlagEnv}

\* args[key] read as a condition: the key is present with a non-empty value.
ArgTruthy(parsedArgs, key) ==
    /\ key \in DOMAIN parsedArgs
    /\ parsedArgs[key] # <<>>

\* parsedArgs[key] = value
ArgPut(parsedArgs, key, value) ==
    [k \in DOMAIN parsedArgs \cup {key} |->
        IF k = key THEN value ELSE parsedArgs[k]]

\* One iteration of the loop of parseCommandLineArgs at index i (1-based);
\* gives the next index and the record.
parseCommandLineArgsStep(args, i, parsedArgs) ==
    LET arg == args[i]
    IN  IF startsWith(arg, S_dashes) /\ includes(arg, S_eq)
        THEN LET kv == split(Slice(arg, 3, Len(arg)), "=", 2)
             IN  [i |-> i + 1, parsedArgs |-> ArgPut(parsedArgs, kv[1], kv[2])]
        ELSE IF /\ startsWith(arg, S_dashes)
                /\ i + 1 <= Len(args)
                /\ ~startsWith(args[i + 1], S_dashes)
        THEN [i |-> i + 2,
              parsedArgs |-> ArgPut(parsedArgs, Slice(arg, 3, Len(arg)), args[i + 1])]
        ELSE [i |-> i + 1, parsedArgs |-> parsedArgs]

\* setEnvFromArgs: each flag with a truthy value overrides its variable.
setEnvFromArgs(processEnv, parsedArgs) ==
    [n \in EnvNames |->
        LET k == CHOOSE j \in DOMAIN FlagEnv : FlagEnv[j].name = n
        IN  IF ArgTruthy(parsedArgs, FlagEnv[k].flag)
            THEN SomeStr(parsedArgs[FlagEnv[k].flag])
            ELSE processEnv[n]]

\* The loop of parseCommandLineArgs, one argument (or flag and value) a step.
ParseArg(c) ==
    /\ pc[c] = "boot_parse"
    /\ local[c].i <= Len(input[c].argv)
    /\ local' = [local EXCEPT ![c] =
                    parseCommandLineArgsStep(input[c].argv, local[c].i,
                                             local[c].parsedArgs)]
    /\ UNCHANGED <<env, available, erdSrv, swaggerSrv, store, mongoClient,
                   pc, input, result, net>>

\* parseCommandLineArgs returns, setEnvFromArgs runs and the server starts.
SetEnv(c) ==
    /\ pc[c] = "boot_parse"
    /\ local[c].i > Len(input[c].argv)
    /\ env' = setEnvFromArgs(env, local[c].parsedArgs)
    /\ pc' = [pc EXCEPT ![c] = "boot_started"]
    /\ UNCHANGED <<available, erdSrv, swaggerSrv, store, mongoClient,
                   input, local, result, net>>

\* Values with and without '=' and the empty value.
ArgValues == {<<>>, S_a, S_b, S_a_eq_b}

\* The flags the command lines of the model use.
ArgFlags == {S_port, S_erd_api_url}

ArgTokens ==
    ArgValues
    \cup {S_dashes \o f : f \in ArgFlags}
    \cup {S_dashes \o f \o S_eq \o v : f \in ArgFlags, v \in ArgValues}

RECURSIVE ArgLists(_)
ArgLists(n) ==
    IF n = 0 THEN {<<>>}
    ELSE LET shorter == ArgLists(n - 1)
         IN  shorter \cup {Append(as, t) :
                             as \in {x \in shorter : Len(x) = n - 1}, t \in ArgTokens}

\* process.env after dotenv.config(): every variable unset or holding the
\* value of the .env file.
BootEnvs ==
    {[n \in EnvNames |-> IF n \in set THEN SomeStr(S_cd) ELSE NoStr] :
        set \in {{}, {"PORT"}, {"ERD_API_URL", "LOG_LEVEL"}}}

InitArgs ==
    /\ env \in BootEnvs
    /\ available = AvailableFrom(NothingConfigured)
    /\ erdSrv = Down
    /\ swaggerSrv = Down
    /\ store = StoreDown
    /\ mongoClient = [i \in MongoInstances |-> "null"]
    /\ pc = [c \in Calls |-> "boot_parse"]
    /\ \E as \in ArgLists(MaxArgs) :
         input = [c \in Calls |-> [argv |-> as, env |-> env]]
    /\ local = [c \in Calls |-> [i |-> 1, parsedArgs |-> <<>>]]
    /\ result = [c \in Calls |-> NoResult]
    /\ net = [c \in Calls |-> IdleNet]

NextArgs ==
    \/ \E c \in CallIds : ParseArg(c)
    \/ \E c \in CallIds : SetEnv(c)

SpecArgs == InitArgs /\ [][NextArgs]_vars

\* The positions of argv where flag is given, as '--flag=v' or as '--flag v'.
GivenAt(argv, flag) ==
    {i \in 1..Len(argv) :
        \/ startsWith(argv[i], S_dashes \o flag \o S_eq)
        \/ /\ argv[i] = S_dashes \o flag
           /\ i + 1 <= Len(argv)
           /\ ~startsWith(argv[i + 1], S_dashes)}

\* The value given at position i.
GivenValue(argv, flag, i) ==
    IF argv[i] = S_dashes \o flag THEN argv[i + 1]
    ELSE Slice(argv[i], Len(flag) + 4, Len(argv[i]))

Started(c) == pc[c] = "boot_started"

\* C21: when the server starts, the variable of every recognised flag whose
\* last occurrence on the command line carries a non-empty value v holds
\* exactly v, also when v contains '='; the variable of a flag that was not
\* given is what it was before.
C21_CliOverride ==
    \A c \in CallIds : Started(c) =>
        \A k \in DOMAIN FlagEnv :
            LET given == GivenAt(input[c].argv, FlagEnv[k].flag)
                last  == CHOOSE i \in given : \A j \in given : j <= i
            IN  /\ given = {} => env[FlagEnv[k].name] = input[c].env[FlagEnv[k].name]
                /\ (given # {}
                    /\ GivenValue(input[c].argv, FlagEnv[k].flag, last) # <<>>) =>
                        env[FlagEnv[k].name] =
                            SomeStr(GivenValue(input[c].argv, FlagEnv[k].flag, last))

-----------------------------------------------------------------------------
(* data_explorer over documents whose own headers meet the entity name.    *)

S_mongodb == <<"m","o","n","g","o","d","b">>
S_api     == <<"a","p","i">>
S_tables  == <<"t","a","b","l","e","s">>
S_users   == <<"u","s","e","r","s">>
S_name    == <<"n","a","m","e">>
S_text    == <<"t","e","x","t">>

SectionQueries == {S_ab, S_mongodb, S_api, S_tables, S_users}

\* ERD documents with a table 'users': with the one primary-key column, and
\* with a column of every combination of isPrimaryKey and isForeignKey.
KeyedErdStates ==
    {Serving(ErdDoc(<<Table(S_users, <<Column(S_id, S_int, TRUE, FALSE)>>)>>)),
     Serving(ErdDoc(<<Table(S_cd, <<Column(S_id, S_int, TRUE, FALSE)>>),
                      Table(S_users, <<Column(S_id, S_int, TRUE, TRUE),
                                       Column(S_ab, S_int, FALSE, TRUE),
                                       Column(S_name, S_text, FALSE, FALSE),
                                       Column(S_cd, S_text, TRUE, FALSE)>>)>>))}

\* Swagger documents with an info block: an ordinary title, and a title that
\* reads like a section of the combined document.
TitledSwaggerStates ==
    {Serving(SwTitled(SwObj(TRUE, <<PathEntry(S_slash_ab, <<S_get>>)>>, FALSE, <<>>), t)) :
        t \in {S_Ab, S_MongoSection, <<>>}}

InitSections ==
    /\ env \in [erd : BOOLEAN, swagger : BOOLEAN, mongoUri : BOOLEAN, mongoConn : {FALSE}]
    /\ available = AvailableFrom(env)
    /\ erdSrv \in (IF env.erd THEN ErdStates \cup KeyedErdStates ELSE {Down})
    /\ swaggerSrv \in (IF env.swagger THEN SwaggerStates \cup TitledSwaggerStates
                       ELSE {Down})
    /\ store \in (IF env.mongoUri THEN StoreStates ELSE {StoreDown})
    /\ mongoClient = [i \in MongoInstances |-> "null"]
    /\ pc = [c \in Calls |-> "de_resolve"]
    /\ input \in [Calls -> {[IdleInput EXCEPT !.tool = "data_explorer", !.query = q,
                                              !.format = f] :
                              q \in SectionQueries, f \in Formats}]
    /\ local = [c \in Calls |-> IdleLocal]
    /\ result = [c \in Calls |-> NoResult]
    /\ net = [c \in Calls |-> IdleNet]

NextSections ==
    \/ \E c \in CallIds : ExploreResolve(c)
    \/ \E c \in CallIds : ExploreErd(c)
    \/ \E c \in CallIds : ExploreErdRecv(c)
    \/ \E c \in CallIds : ExploreSwagger(c)
    \/ \E c \in CallIds : ExploreSwaggerRecv1(c)
    \/ \E c \in CallIds : ExploreSwaggerRecv2(c)
    \/ \E c \in CallIds : ExploreMongo(c)
    \/ \E c \in CallIds : MongoGetClient(c)
    \/ \E c \in CallIds : MongoConnectDone(c)
    \/ \E c \in CallIds : MongoSwitch(c)
    \/ \E c \in CallIds : MongoOp1(c)
    \/ \E c \in CallIds : MongoOp2(c)
    \/ \E c \in CallIds : ExploreCompose(c)

SpecSections == InitSections /\ [][NextSections]_vars

\* A data_explorer call that has returned its markdown document.
ComposedMd(c) ==
    /\ IsExplore(c) /\ Done(c) /\ ~IsJson(c)
    /\ result[c].shape = "content"
    /\ result[c].text.k = "md"

\* The lines of the document that are the level-2 header h.
HeaderLines(c, h) ==
    {i \in 1..Len(result[c].text.lines) : result[c].text.lines[i] = H(2, h)}

\* C22: the markdown document of data_explorer holds the headers
\* 'Database Schema (ERD)', 'API Documentation (Swagger)' and 'MongoDB Data'
\* exactly once each, in this order, whatever is configured and whatever the
\* sources answered.
C22_SectionHeaders ==
    \A c \in CallIds : ComposedMd(c) =>
        /\ \A h \in {S_ErdSection, S_SwSection, S_MongoSection} :
              Cardinality(HeaderLines(c, h)) = 1
        /\ \A i \in HeaderLines(c, S_ErdSection), j \in HeaderLines(c, S_SwSection),
              k \in HeaderLines(c, S_MongoSection) : i < j /\ j < k

\* The least element of a non-empty set of line numbers.
First(S) == CHOOSE i \in S : \A j \in S : i <= j

\* The lines of the document between the ERD header and the Swagger header.
ErdSectionLines(c) ==
    LET ls == result[c].text.lines
        from == First(HeaderLines(c, S_ErdSection))
        to == First(HeaderLines(c, S_SwSection))
    IN  SubSeq(ls, from + 1, to - 1)

\* The Key cell the specification gives a column.
KeyCell(col) ==
    IF col.isPrimaryKey THEN <<"P","K">>
    ELSE IF col.isForeignKey THEN <<"F","K">>
    ELSE <<>>

\* The tables of the served ERD document that the entity name selects: those
\* whose name holds it.
TablesOf(name) ==
    {i \in 1..Len(erdSrv.data.list) :
        /\ erdSrv.data.list[i].hasName
        /\ includes(toLowerCase(erdSrv.data.list[i].name), toLowerCase(name))}

\* A finished markdown call whose entity names exactly one table of a
\* well-formed ERD document.
RendersOneTable(c) ==
    /\ ComposedMd(c)
    /\ available.erd /\ erdSrv.up
    /\ erdSrv.data.k = "obj" /\ erdSrv.data.tables = "array"
    /\ \A i \in 1..Len(erdSrv.data.list) : erdSrv.data.list[i].hasName
    /\ Cardinality(TablesOf(local[c].entityName)) = 1
    /\ \E i \in TablesOf(local[c].entityName) :
          toLowerCase(erdSrv.data.list[i].name) = toLowerCase(local[c].entityName)

\* C23 (as the specification states it): in the ERD section of the markdown
\* document, the table of the entity has one row for each of its columns, in
\* order, with the column's name and type and the Key cell PK for a primary
\* key (also when it is a foreign key), FK for a foreign key only, and
\* nothing otherwise.
C23_KeyColumn ==
    \A c \in CallIds : RendersOneTable(c) =>
        LET t == erdSrv.data.list[First(TablesOf(local[c].entityName))]
            rows == SelectSeq(ErdSectionLines(c), LAMBDA l : l.tag = "column")
        IN  /\ Len(rows) = Len(t.columns)
            /\ \A i \in 1..Len(rows) :
                  rows[i].txt = t.columns[i].name \o <<"|">> \o t.columns[i].type
                                  \o <<"|">> \o KeyCell(t.columns[i])

\* The lookup of source s of call c has completed: its slot is filled.
LookedUp(c, s) == local[c].sources[s] # SlotNull

\* C24: in a data_explorer call the lookups run one after the other, ERD,
\* then Swagger, then the store: while the ERD request is outstanding nothing
\* has been sent to Swagger or the store; while a Swagger request is
\* outstanding the ERD lookup (if configured) has completed and nothing has
\* been sent to the store; while the store is being contacted both others
\* have completed; and the result is returned with no request outstanding
\* and every configured lookup completed.
C24_Sequential ==
    \A c \in CallIds : IsExplore(c) =>
        /\ net[c].inflight = "erd" =>
              /\ net[c].swaggerGets = 0 /\ net[c].connects = 0 /\ net[c].storeOps = 0
              /\ ~LookedUp(c, "swagger") /\ ~LookedUp(c, "mongodb")
        /\ net[c].inflight = "swagger" =>
              /\ available.erd => LookedUp(c, "erd")
              /\ net[c].connects = 0 /\ net[c].storeOps = 0
              /\ ~LookedUp(c, "mongodb")
        /\ net[c].inflight \in {"connect", "store"} =>
              /\ available.erd => LookedUp(c, "erd")
              /\ available.swagger => LookedUp(c, "swagger")
        /\ (Done(c) /\ result[c] # EntityUnresolved) =>
              /\ net[c].inflight = "none"
              /\ \A s \in SourceNames : available[s] => LookedUp(c, s)

\* C24 witness: with all three sources configured and answering, the store
\* is being read after one ERD request and two Swagger requests.
C24_Witness ==
    \E c \in CallIds :
        /\ IsExplore(c)
        /\ \A s \in SourceNames : available[s]
        /\ erdSrv.up /\ swaggerSrv.up /\ store.up
        /\ net[c].inflight = "store"
        /\ net[c].erdGets = 1 /\ net[c].swaggerGets = 2
        /\ LookedUp(c, "erd") /\ LookedUp(c, "swagger")

\* The field paths of the entries kv of a document, each with the type of
\* its value: nested objects contribute their own paths, joined with '.'.
RECURSIVE PathTypes(_, _)
PathTypes(kv, prefix) ==
    UNION {LET path == IF prefix = <<>> THEN kv[i].key
                       ELSE prefix \o S_dot \o kv[i].key
           IN  {<<path, kv[i].val.t>>}
               \cup (IF kv[i].val.t = "object" THEN PathTypes(kv[i].val.kv, path)
                     ELSE {}) : i \in DOMAIN kv}

\* C25: describeCollection reports, for every sampled document, every field
\* path of the document with the type of its value there: 'object' for a
\* nested object (whose keys follow as '<parent>.<child>'), 'array' for an
\* array, 'null' for null, 'ObjectId' for a store identifier, and the
\* primitive type name otherwise.
C25_FieldWalk ==
    \A c \in CallIds :
        (Described(c) /\ IsJson(c) /\ result[c].shape = "object") =>
            \A d \in Range(SampledDocs(c)) :
                \A pt \in PathTypes(d, <<>>) :
                    \E i \in DOMAIN result[c].value.items :
                        /\ result[c].value.items[i].name = pt[1]
                        /\ result[c].value.items[i].type = pt[2]

\* C26: a call holds the handle getClient returned, or has an operation
\* outstanding on the store, only while the handle of its tool instance is
\* connected: never while its connect() is still in flight or after it has
\* failed.
C26_ConnectedBeforeUse ==
    \A c \in CallIds :
        (InMongo(c) /\ pc[c] \in {"m_switch", "m_op1", "m_op2"}) =>
            mongoClient[local[c].inst] = "connected"

\* The section the specification describes: from the first header line that
\* holds the entity name as a word, up to the line before the next header of
\* the same or a higher level; the empty sequence when no header holds it.
ExpectedSection(text, entityName) ==
    LET lines == SplitLines(text)
        named == {i \in 1..Len(lines) :
                    IsHeader(lines[i]) /\ TargetPatternTest(lines[i], entityName)}
        start == First(named)
        stops == {j \in (start + 1)..Len(lines) :
                    IsHeader(lines[j]) /\ lines[j].lvl <= lines[start].lvl}
    IN  IF named = {} THEN <<>>
        ELSE SubSeq(lines, start, IF stops = {} THEN Len(lines) ELSE First(stops) - 1)

\* The markdown of the whole served document, which swaggerTool.execute
\* hands getSwaggerInfo.
SwaggerMarkdown == SwaggerConvertToMarkdown(swaggerSrv.data)

\* A markdown call whose Swagger lookup has read the tool's markdown.
SwaggerExtracted(c) ==
    /\ IsExplore(c) /\ ~IsJson(c)
    /\ available.swagger /\ swaggerSrv.up /\ swaggerSrv.data.k = "obj"
    /\ LookedUp(c, "swagger")

\* C27 (as the specification states it): extractMarkdownSection finds
\* nothing exactly when no header holds the entity name as a word; otherwise
\* it returns the section that starts at the first such header and ends
\* before the next header of the same or a higher level.
C27_FirstSection ==
    \A c \in CallIds : SwaggerExtracted(c) =>
        LET expected == ExpectedSection(SwaggerMarkdown, local[c].entityName)
            found == extractMarkdownSection(SwaggerMarkdown, local[c].entityName)
        IN  /\ found = SlotNull <=> expected = <<>>
            /\ found # SlotNull => found.lines = expected

\* C28 (as the specification states it): data_explorer narrows the ERD
\* document alike in both formats: JSON selects the first table whose name
\* holds the entity name and markdown presents the rendering of that table;
\* markdown reports 'No ERD information found' exactly when JSON does, which
\* is when no table's name holds the entity name.
C28_FormatIndependent ==
    \A c \in CallIds :
        (IsExplore(c) /\ available.erd /\ erdSrv.up /\ LookedUp(c, "erd")
         /\ erdSrv.data.k = "obj" /\ erdSrv.data.tables = "array"
         /\ \A i \in DOMAIN erdSrv.data.list : erdSrv.data.list[i].hasName) =>
            LET e    == local[c].entityName
                ts   == erdSrv.data.list
                hits == {i \in DOMAIN ts : Occurs(e, toLowerCase(ts[i].name))}
                slot == local[c].sources.erd
                rendered == ErdTableMarkdown(ts[First(hits)])
            IN  IF hits = {}
                THEN slot = (IF IsJson(c)
                             THEN SlotMessage(NoErdInfo(e))
                             ELSE SlotString(<<B("No ERD information found for ", e)>>,
                                             FALSE))
                ELSE IF IsJson(c)
                THEN slot = SlotTable(ts[First(hits)])
                ELSE /\ slot.k = "string"
                     /\ Len(slot.lines) >= Len(rendered)
                     /\ SubSeq(slot.lines, 1, Len(rendered)) = rendered

\* C29: a describeCollection, sampleData or query call without a collection
\* name returns 'Collection name is required.', and a query call without a
\* query returns 'Query is required.', in every state of the connection and
\* of the configuration; such a call creates no handle, starts no connection
\* attempt and issues no store operation.
C29_ValidationFirst ==
    \A c \in CallIds :
        (IsMongoCall(c) /\ input[c].request.action # "listCollections") =>
            LET r == input[c].request IN
            /\ Falsy(r.collection) =>
                  /\ net[c].connects = 0 /\ net[c].storeOps = 0
                  /\ Done(c) => result[c] = CollectionMissing
            /\ (r.action = "query" /\ ~Falsy(r.collection) /\ Falsy(r.query)) =>
                  /\ net[c].connects = 0 /\ net[c].storeOps = 0
                  /\ Done(c) => result[c] = QueryMissing

=============================================================================
